---- MODULE Spec2Model ----
(***************************************************************************)
(* Keyframe insertion of Blender's animrig (keyframing.cc, ANIM_action.hh) *)
(* as a state machine.  One animated ID with its AnimData, the Action      *)
(* assigned to it (legacy F-Curve list, layers, bindings) and the          *)
(* bookkeeping of the last top-level call (returned CombinedKeyingResult,  *)
(* depsgraph tags, NLA keyframing-context cache).                          *)
(*                                                                         *)
(* Times and values are integers: every float computation of the source is *)
(* carried out on whole frames (floorf(a / b) is a \div b, and the period  *)
(* test `period < 0.1f` is `period < 1`).                                  *)
(***************************************************************************)
EXTENDS Integers, Sequences, FiniteSets, TLC

(* ------------------------------ bounds -------------------------------- *)

\* number of top-level calls in one behaviour
MaxCalls == 2

\* number of calls made on one CombinedKeyingResult, and the largest count added
MaxOps == 3
MaxCount == 2

\* scene frames a call may be made at, and values a property may hold
Frames == {1, 2}
Values == {1}

(* --------------------------- SingleKeyingResult ------------------------ *)

Kinds ==
    <<"SUCCESS", "UNKNOWN_FAILURE", "CANNOT_CREATE_FCURVE", "FCURVE_NOT_KEYFRAMEABLE",
      "NO_KEY_NEEDED", "UNABLE_TO_INSERT_TO_NLA_STACK", "ID_NOT_EDITABLE",
      "ID_NOT_ANIMATABLE", "CANNOT_RESOLVE_PATH", "NO_VALID_LAYER", "NO_VALID_STRIP",
      "NO_VALID_BINDING">>

KindSet == {Kinds[i] : i \in 1..Len(Kinds)}

(* -------------------------- CombinedKeyingResult ----------------------- *)

\* CombinedKeyingResult(): result_counter.fill(0)
CombinedKeyingResult == [k \in KindSet |-> 0]

\* a faulty variant of line 57 that stores the count instead of adding it
add_storing(r, result, count) == [r EXCEPT ![result] = count]

add(r, result, count) == [r EXCEPT ![result] = @ + count]

\* a faulty variant of line 63 that keeps the larger of the two counts
merge_larger(r, other) == [k \in KindSet |-> IF other[k] > r[k] THEN other[k] ELSE r[k]]

merge(r, other) == [k \in KindSet |-> r[k] + other[k]]

get_count(r, result) == r[result]

\* a faulty variant of lines 77-81 whose loop starts at 0
has_errors_from_success(r) == \E i \in 1..Len(Kinds) : r[Kinds[i]] > 0

\* the loop starts at 1 and so skips SUCCESS, which is Kinds[1] here
has_errors(r) == \E i \in 2..Len(Kinds) : r[Kinds[i]] > 0

(* ------------------------------ generate_reports ------------------------ *)

\* A report is a severity (type) and a message; a message is its lines, in
\* order.  A line is a fixed text, or a text with a count formatted into it by
\* {:d}; the text of a kind is named by the kind.  A line appended as "\n- {}" is
\* a bullet.
Line(bullet, text, count) == [bullet |-> bullet, text |-> text, count |-> count]

RECURSIVE KeyingErrors(_, _)
\* lines 93-168: one message for every kind from Kinds[i] on that has a count
\* above zero, in the order of the enum; fmt::format puts the count of the kind
\* into the text of the kind
KeyingErrors(r, i) ==
    IF i > Len(Kinds) THEN <<>>
    ELSE IF get_count(r, Kinds[i]) > 0
    THEN <<Line(FALSE, Kinds[i], get_count(r, Kinds[i]))>> \o KeyingErrors(r, i + 1)
    ELSE KeyingErrors(r, i + 1)

\* lines 180-183: the header, then each error appended as "\n- {}"
CombinedMessage(errors) ==
    <<Line(FALSE, "Inserting keyframes failed:", 0)>>
        \o [n \in 1..Len(errors) |-> [errors[n] EXCEPT !.bullet = TRUE]]

\* a faulty variant of lines 170-184 that combines a single error as well
ReportErrorsCombined(errors) ==
    IF errors = <<>>
    THEN <<[type |-> "WARNING",
            lines |-> <<Line(FALSE, "Encountered unhandled error during keyframing", 0)>>]>>
    ELSE <<[type |-> "ERROR", lines |-> CombinedMessage(errors)]>>

\* lines 170-184
ReportErrors(errors) ==
    IF errors = <<>>
    THEN <<[type |-> "WARNING",
            lines |-> <<Line(FALSE, "Encountered unhandled error during keyframing", 0)>>]>>
    ELSE IF Len(errors) = 1
    THEN <<[type |-> "ERROR", lines |-> <<errors[1]>>]>>
    ELSE <<[type |-> "ERROR", lines |-> CombinedMessage(errors)]>>

\* a faulty variant of line 87 that looks at the successes only
generate_reports_unless_success(r) ==
    IF get_count(r, "SUCCESS") = 0
    THEN <<[type |-> "WARNING",
            lines |-> <<Line(FALSE, "No keys have been inserted and no errors have been reported.",
                             0)>>]>>
    ELSE ReportErrors(KeyingErrors(r, 2))

\* the reports generate_reports(reports) appends to the list
generate_reports(r) ==
    IF ~has_errors(r) /\ get_count(r, "SUCCESS") = 0
    THEN <<[type |-> "WARNING",
            lines |-> <<Line(FALSE, "No keys have been inserted and no errors have been reported.",
                             0)>>]>>
    ELSE ReportErrors(KeyingErrors(r, 2))

\* The one element of a singleton set.  Only({F(x) : x \in {e}}) is F(e) with e
\* computed before F is applied to it, as one statement follows another.
Only(S) == CHOOSE x \in S : TRUE

RECURSIVE SumSeq(_, _)
SumSeq(f, s) == IF s = <<>> THEN 0 ELSE f[Head(s)] + SumSeq(f, Tail(s))

\* sum of all counters of an aggregate
TotalCount(r) == SumSeq(r, Kinds)

(* ------------------------------ eInsertKeyFlags ------------------------ *)

AllFlags == {"REPLACE", "AVAILABLE", "NEEDED", "CYCLE_AWARE"}

\* the flag words a caller passes
FlagChoices ==
    {{}, {"REPLACE"}, {"AVAILABLE"}, {"NEEDED"}, {"CYCLE_AWARE"}}

key_insertion_may_create_fcurve(insert_key_flags) ==
    insert_key_flags \cap {"REPLACE", "AVAILABLE"} = {}

\* lines 232-238.  scene: whether a Scene is given and the keying_flag of its
\* tool settings; u_keying_flag: U.keying_flag, the setting of the user.
is_keying_flag(scene, u_keying_flag, flag) ==
    IF scene.given
    THEN flag \in scene.keying_flag \/ flag \in u_keying_flag
    ELSE flag \in u_keying_flag

\* lines 240-259
get_keyframing_flags(scene, u_keying_flag) ==
    (IF is_keying_flag(scene, u_keying_flag, "VISUALKEY") THEN {"MATRIX"} ELSE {})
    \cup (IF is_keying_flag(scene, u_keying_flag, "CYCLEAWARE") THEN {"CYCLE_AWARE"} ELSE {})
    \cup (IF is_keying_flag(scene, u_keying_flag, "INSERTNEEDED") THEN {"NEEDED"} ELSE {})

(* --------------------------------- FCurve ------------------------------ *)

\* a new F-Curve: no keys, not protected, no modifiers
NewFCurve(rna_path, array_index) ==
    [rna_path |-> rna_path, array_index |-> array_index, bezt |-> <<>>,
     protected |-> FALSE, has_cycles |-> FALSE,
     before_mode |-> "CYCLIC", after_mode |-> "CYCLIC"]

totvert(fcu) == Len(fcu.bezt)

KeyIndexAt(fcu, t) ==
    IF \E i \in 1..Len(fcu.bezt) : fcu.bezt[i][1] = t
    THEN CHOOSE i \in 1..Len(fcu.bezt) : fcu.bezt[i][1] = t
    ELSE 0

\* number of keys before time t: where a new key at t goes
KeysBefore(fcu, t) == Cardinality({i \in 1..Len(fcu.bezt) : fcu.bezt[i][1] < t})

InsertAt(s, n, e) == SubSeq(s, 1, n) \o <<e>> \o SubSeq(s, n + 1, Len(s))

\* the curve's value at time t as the key insertion sees it: the key at t, else
\* the key before t, else the first key
EvalFCurve(fcu, t) ==
    IF KeyIndexAt(fcu, t) # 0 THEN fcu.bezt[KeyIndexAt(fcu, t)][2]
    ELSE IF KeysBefore(fcu, t) > 0 THEN fcu.bezt[KeysBefore(fcu, t)][2]
    ELSE fcu.bezt[1][2]

new_key_needed(fcu, t, v) ==
    IF Len(fcu.bezt) = 0 THEN TRUE ELSE EvalFCurve(fcu, t) # v

BKE_fcurve_is_protected(fcu) == fcu.protected

BKE_fcurve_is_keyframable(fcu) == ~fcu.protected

\* BKE_fcurve_get_cycle_type
CycleType(fcu) ==
    IF ~fcu.has_cycles THEN "NONE"
    ELSE IF fcu.before_mode = "CYCLIC" /\ fcu.after_mode = "CYCLIC" THEN "PERFECT"
    ELSE IF fcu.before_mode = "CYCLIC_OFFSET" \/ fcu.after_mode = "CYCLIC_OFFSET"
         THEN "OFFSET"
    ELSE "NONE"

\* the point insertion of the curve, given the index `at` of the key at time t
\* (0: none): a key at an existing time is overwritten, never duplicated;
\* replace-only never adds a point
InsertVertAt(fcu, t, v, flag, at) ==
    IF at # 0
    THEN [result |-> "SUCCESS", fcu |-> [fcu EXCEPT !.bezt[at] = <<t, v>>]]
    ELSE IF "REPLACE" \in flag
    THEN [result |-> "UNKNOWN_FAILURE", fcu |-> fcu]
    ELSE [result |-> "SUCCESS",
          fcu |-> [fcu EXCEPT !.bezt = InsertAt(@, KeysBefore(fcu, t), <<t, v>>)]]

\* only-insert-needed suppresses a key that would not change the curve
insert_vert_fcurve(fcu, t, v, flag) ==
    IF "NEEDED" \in flag /\ ~new_key_needed(fcu, t, v)
    THEN [result |-> "NO_KEY_NEEDED", fcu |-> fcu]
    ELSE InsertVertAt(fcu, t, v, flag, KeyIndexAt(fcu, t))

\* lines 410-426: fold a time outside [start, end] back into the range
\* a faulty variant of lines 416-423 that offsets the value whatever the mode on
\* the side of the time
RemapOutsideAnyMode(type, px, py, start, period, step, mode, first_value, last_value) ==
    [type |-> type,
     x |-> px - step * period,
     y |-> IF type = "OFFSET" THEN py - step * (last_value - first_value) ELSE py]

RemapOutside(type, px, py, start, period, step, mode, first_value, last_value) ==
    [type |-> type,
     x |-> px - step * period,
     y |-> IF type = "OFFSET" /\ mode = "CYCLIC_OFFSET"
           THEN py - step * (last_value - first_value)
           ELSE py]

\* the number of periods from start to px, rounded towards zero
StepTruncated(px, start, period) ==
    IF px < start THEN 0 - ((start - px) \div period) ELSE (px - start) \div period

\* a faulty variant of line 412 that rounds the number of periods towards zero
RemapInCycleTruncating(fcu, type, px, py, start, end) ==
    IF start >= end THEN [type |-> "NONE", x |-> px, y |-> py]
    ELSE IF px < start \/ px > end
    THEN RemapOutside(type, px, py, start, end - start, StepTruncated(px, start, end - start),
                      IF StepTruncated(px, start, end - start) >= 0 THEN fcu.after_mode
                      ELSE fcu.before_mode,
                      fcu.bezt[1][2], fcu.bezt[Len(fcu.bezt)][2])
    ELSE [type |-> type, x |-> px, y |-> py]

\* lines 403-426, for a curve with a cycle type and at least two keys
RemapInCycle(fcu, type, px, py, start, end) ==
    IF start >= end THEN [type |-> "NONE", x |-> px, y |-> py]
    ELSE IF px < start \/ px > end
    THEN RemapOutside(type, px, py, start, end - start, (px - start) \div (end - start),
                      IF (px - start) \div (end - start) >= 0 THEN fcu.after_mode
                      ELSE fcu.before_mode,
                      fcu.bezt[1][2], fcu.bezt[Len(fcu.bezt)][2])
    ELSE [type |-> type, x |-> px, y |-> py]

\* a faulty variant of lines 393-395 that reports the cycle type of the modifier
\* for a curve with fewer than two keys
remap_cyclic_keyframe_location_typed(fcu, px, py) ==
    IF totvert(fcu) < 2 THEN [type |-> CycleType(fcu), x |-> px, y |-> py]
    ELSE IF CycleType(fcu) = "NONE" THEN [type |-> "NONE", x |-> px, y |-> py]
    ELSE RemapInCycle(fcu, CycleType(fcu), px, py, fcu.bezt[1][1], fcu.bezt[Len(fcu.bezt)][1])

\* Move the point where a key is about to be inserted into the main cycle range.
remap_cyclic_keyframe_location(fcu, px, py) ==
    IF totvert(fcu) < 2 THEN [type |-> "NONE", x |-> px, y |-> py]
    ELSE IF CycleType(fcu) = "NONE" THEN [type |-> "NONE", x |-> px, y |-> py]
    ELSE RemapInCycle(fcu, CycleType(fcu), px, py, fcu.bezt[1][1], fcu.bezt[Len(fcu.bezt)][1])

\* the outcome of a curve-level write: that of the point insertion, with the
\* flag words insert_vert_fcurve was called with (none: it was not called)
ValueWritten(r, vert_calls) == [result |-> r.result, fcu |-> r.fcu, vert_calls |-> vert_calls]

\* line 468: the point insertion with the flags left after line 461
InsertVertWith(fcu, x, y, vert_flag) ==
    ValueWritten(insert_vert_fcurve(fcu, x, y, vert_flag), <<vert_flag>>)

\* a faulty variant of lines 459-462 that leaves the cycle-aware bit set whatever
\* the cycle type
InsertRemappedKeepingFlag(fcu, rm, flag) == InsertVertWith(fcu, rm.x, rm.y, flag)

\* lines 459-468: cycle-aware insertion stays on only for a perfect cycle
InsertRemapped(fcu, rm, flag) ==
    InsertVertWith(fcu, rm.x, rm.y,
                   IF rm.type # "PERFECT" THEN flag \ {"CYCLE_AWARE"} ELSE flag)

\* a faulty variant of lines 457-463 that inserts at the time asked for, without
\* moving it into the cycle
insert_keyframe_value_unmapped(fcu, cfra, curval, flag) ==
    IF ~BKE_fcurve_is_keyframable(fcu)
    THEN ValueWritten([result |-> "FCURVE_NOT_KEYFRAMEABLE", fcu |-> fcu], <<>>)
    ELSE InsertRemapped(fcu,
                        [type |-> IF "CYCLE_AWARE" \in flag
                                  THEN remap_cyclic_keyframe_location(fcu, cfra, curval).type
                                  ELSE "NONE",
                         x |-> cfra, y |-> curval],
                        flag)

\* Insert the specified keyframe value into a single F-Curve.
insert_keyframe_value(fcu, cfra, curval, flag) ==
    IF ~BKE_fcurve_is_keyframable(fcu)
    THEN ValueWritten([result |-> "FCURVE_NOT_KEYFRAMEABLE", fcu |-> fcu], <<>>)
    ELSE InsertRemapped(fcu,
                        IF "CYCLE_AWARE" \in flag
                        THEN remap_cyclic_keyframe_location(fcu, cfra, curval)
                        ELSE [type |-> "NONE", x |-> cfra, y |-> curval],
                        flag)

\* lines 280-299: move the only key into the range, duplicate it one period on
MakeCyclic(fcu, period, time, value) ==
    [fcu EXCEPT !.bezt = <<<<time, value>>, <<time + period, value>>>>,
                !.has_cycles = TRUE]

\* a faulty variant of lines 275-279 that leaves alone every period up to 4
make_new_fcurve_cyclic_long(fcu, frame_start, frame_end) ==
    IF totvert(fcu) # 1 THEN fcu
    ELSE IF frame_end - frame_start < 5 THEN fcu
    ELSE MakeCyclic(fcu, frame_end - frame_start,
                    fcu.bezt[1][1]
                    - ((fcu.bezt[1][1] - frame_start) \div (frame_end - frame_start))
                      * (frame_end - frame_start),
                    fcu.bezt[1][2])

\* Used to make curves newly added to a cyclic Action cycle with the correct period.
make_new_fcurve_cyclic(fcu, frame_start, frame_end) ==
    IF totvert(fcu) # 1 THEN fcu
    ELSE IF frame_end - frame_start < 1 THEN fcu
    ELSE MakeCyclic(fcu, frame_end - frame_start,
                    fcu.bezt[1][1]
                    - ((fcu.bezt[1][1] - frame_start) \div (frame_end - frame_start))
                      * (frame_end - frame_start),
                    fcu.bezt[1][2])

(* ---------------------------- RNA properties -------------------------- *)

\* the property paths a caller asks for; "bogus" resolves to nothing
Paths == {"location", "bogus"}

\* the properties of the ID: the 3-element array "location", the single
\* property "pass_index"
Properties == {"location", "pass_index"}

RNA_path_resolve_property(rna_path) == rna_path \in Properties

RNA_property_array_length(rna_path) == IF rna_path = "location" THEN 3 ELSE 0

\* get_keyframe_values: one value per array element, one for a single property.
\* Every element of the property holds the value v.
get_keyframe_values(rna_path, v) ==
    [i \in 1..(IF RNA_property_array_length(rna_path) = 0 THEN 1
               ELSE RNA_property_array_length(rna_path)) |-> v]

(* ------------------------ NLA remap of the values ---------------------- *)

\* the indices a remap was asked for
RemapDomain(index, count) == {i \in 0..(count - 1) : index = i \/ index = -1}

\* the answers the NLA stack gives for the elements of a 3-element property
MaskChoices == {{}, {1}, {0, 2}, {0, 1, 2}}

\* BKE_animsys_nla_remap_keyframe_values: the per-element success mask and the
\* force-all answer.  Without a context every asked-for element succeeds; with one
\* the NLA stack decides, and only asks to force all elements when the caller
\* passed r_force_all.
NlaRemapOutcomes(has_context, index, count, want_force) ==
    IF ~has_context
    THEN {[mask |-> RemapDomain(index, count), force_all |-> FALSE]}
    ELSE {[mask |-> m \cap RemapDomain(IF f THEN -1 ELSE index, count), force_all |-> f] :
            m \in MaskChoices, f \in (IF want_force THEN BOOLEAN ELSE {FALSE})}

NoNla == [mask |-> {}, force_all |-> FALSE]

\* BKE_nla_tweakedit_remap(adt, frame, NLATIME_CONVERT_UNMAP): the ID is not in
\* NLA tweak mode, where the strip time is the scene time
BKE_nla_tweakedit_remap(frame) == frame

\* the NLA keyframing-context cache of one call: the number of cached contexts
BKE_animsys_get_nla_keyframing_context(nla_cache) == nla_cache + 1

BKE_animsys_free_nla_keyframing_context_cache(nla_cache) == 0

(* ------------------------- Action: legacy data ------------------------- *)

\* a new, empty Action, as id_action_ensure creates it
NewAction ==
    [curves |-> <<>>, layers |-> <<>>, bindings |-> <<>>, last_binding_handle |-> 0,
     cyclic |-> FALSE, frame_start |-> 0, frame_end |-> 0]

is_empty(a) == Len(a.layers) = 0 /\ Len(a.bindings) = 0 /\ Len(a.curves) = 0

\* a legacy Action has no layered data; the empty Action is legacy too
is_action_legacy(a) == Len(a.layers) = 0 /\ Len(a.bindings) = 0

\* a layered Action has layered data, or no legacy data: the empty Action is
\* layered too
is_action_layered(a) == Len(a.layers) > 0 \/ Len(a.bindings) > 0 \/ Len(a.curves) = 0

BKE_action_is_cyclic(a) == a.cyclic

\* index into a list of F-Curves of the curve for (rna_path, array_index), 0: none
FCurveIndex(fcurves, rna_path, array_index) ==
    IF \E i \in 1..Len(fcurves) :
          fcurves[i].rna_path = rna_path /\ fcurves[i].array_index = array_index
    THEN CHOOSE i \in 1..Len(fcurves) :
          /\ fcurves[i].rna_path = rna_path /\ fcurves[i].array_index = array_index
          /\ \A j \in 1..(i - 1) :
                ~(fcurves[j].rna_path = rna_path /\ fcurves[j].array_index = array_index)
    ELSE 0

action_fcurve_find(a, rna_path, array_index) == FCurveIndex(a.curves, rna_path, array_index)

\* a faulty variant that adds a curve without looking for the one there is
action_fcurve_ensure_adding(a, rna_path, array_index) ==
    [act |-> [a EXCEPT !.curves = Append(@, NewFCurve(rna_path, array_index))],
     ix |-> Len(a.curves) + 1]

action_fcurve_ensure(a, rna_path, array_index) ==
    IF action_fcurve_find(a, rna_path, array_index) # 0
    THEN [act |-> a, ix |-> action_fcurve_find(a, rna_path, array_index)]
    ELSE [act |-> [a EXCEPT !.curves = Append(@, NewFCurve(rna_path, array_index))],
          ix |-> Len(a.curves) + 1]

\* lines 594-599: if the curve is new, make it cyclic if appropriate
MaybeCyclicAfter(written, make_cyclic, frame_start, frame_end) ==
    IF make_cyclic
    THEN [written EXCEPT !.fcu = make_new_fcurve_cyclic(@, frame_start, frame_end)]
    ELSE written

\* lines 579-597, for the curve found or created: make a one-key curve of a
\* cyclic Action cyclic, write the key, make a new curve cyclic
WriteFCurve(fcu, is_cyclic_action, frame_start, frame_end, fcurve_frame, curval, flag) ==
    MaybeCyclicAfter(
        insert_keyframe_value(
            IF is_cyclic_action /\ totvert(fcu) = 1
            THEN make_new_fcurve_cyclic(fcu, frame_start, frame_end)
            ELSE fcu,
            fcurve_frame, curval, flag),
        is_cyclic_action /\ totvert(fcu) = 0, frame_start, frame_end)

\* the Action with the written curve stored back
StoreFCurve(a, ix, written) ==
    [result |-> written.result, act |-> [a EXCEPT !.curves[ix] = written.fcu]]

\* lines 575-599, given the Action after action_fcurve_ensure / action_fcurve_find
\* and the index of the curve in it
WriteFound(a, e, fcurve_frame, curval, flag) ==
    IF e.ix = 0 THEN [result |-> "CANNOT_CREATE_FCURVE", act |-> a]
    ELSE StoreFCurve(e.act, e.ix,
                     WriteFCurve(e.act.curves[e.ix],
                                 "CYCLE_AWARE" \in flag /\ BKE_action_is_cyclic(a),
                                 a.frame_start, a.frame_end, fcurve_frame, curval, flag))

\* a faulty variant of lines 569-571 that creates the missing curve whatever the
\* flags
insert_keyframe_fcurve_value_ensuring(a, rna_path, array_index, fcurve_frame, curval, flag) ==
    WriteFound(a, action_fcurve_ensure(a, rna_path, array_index), fcurve_frame, curval, flag)

\* Find or create the FCurve based on the given path, and insert the specified
\* value into it.
insert_keyframe_fcurve_value(a, rna_path, array_index, fcurve_frame, curval, flag) ==
    WriteFound(a,
               IF key_insertion_may_create_fcurve(flag)
               THEN action_fcurve_ensure(a, rna_path, array_index)
               ELSE [act |-> a, ix |-> action_fcurve_find(a, rna_path, array_index)],
               fcurve_frame, curval, flag)

(* --------------------- the running state of one call ------------------- *)

\* What a top-level call has done so far: the Action as written, the aggregate,
\* the channel writes attempted in call order (path position p, array index i,
\* outcome, and whether the flags of that write forbade creating a curve),
\* and the count of successful keys.
CallState(a) == [act |-> a, result |-> CombinedKeyingResult, log |-> <<>>, key_count |-> 0]

\* a channel write's outcome r taken into the running state
Record(st, p, array_index, flag, r) ==
    [act |-> r.act,
     result |-> add(st.result, r.result, 1),
     log |-> Append(st.log, [p |-> p, i |-> array_index, result |-> r.result,
                             restricted |-> ~key_insertion_may_create_fcurve(flag)]),
     key_count |-> st.key_count + (IF r.result = "SUCCESS" THEN 1 ELSE 0)]

\* one insert_keyframe_fcurve_value call of a top-level function, its outcome
\* added to the aggregate
KeyChannel(st, p, rna_path, array_index, frame, curval, flag) ==
    Record(st, p, array_index, flag,
           insert_keyframe_fcurve_value(st.act, rna_path, array_index, frame, curval, flag))

LastResult(st) == st.log[Len(st.log)].result

(* ------------------------- the animated ID ----------------------------- *)

\* The ID's animation data as a call sees and changes it: whether the ID has an
\* AnimData, adt->action (0: none, 1: the Action `act`), adt->binding_handle, and
\* the Action itself.
World(h, aa, bh, a) == [has_adt |-> h, adt_action |-> aa, adt_binding_handle |-> bh, act |-> a]

\* BKE_animdata_ensure_id: the AnimData of the ID, created if the ID can be animated
BKE_animdata_ensure_id(w, animatable) ==
    IF animatable THEN [w EXCEPT !.has_adt = TRUE] ELSE w

\* a new, empty Action assigned to an ID that has none
ActionEnsured(w1) ==
    IF w1.adt_action = 0 THEN [w1 EXCEPT !.adt_action = 1, !.act = NewAction] ELSE w1

\* id_action_ensure: the Action assigned to the ID, a new empty Action if none;
\* act_ptr 0 is the null pointer returned for an ID that cannot be animated
id_action_ensure(w, animatable) ==
    IF ~animatable THEN [w |-> w, act_ptr |-> 0]
    ELSE [w |-> ActionEnsured(BKE_animdata_ensure_id(w, animatable)), act_ptr |-> 1]

\* What a top-level call returns and leaves behind.
CallOutcome(w, result, log, deg, acquired, freed, held, branch, assert_failed) ==
    [w |-> w, result |-> result, log |-> log, deg |-> deg,
     nla_acquired |-> acquired, nla_freed |-> freed, nla_held |-> held,
     branch |-> branch, assert_failed |-> assert_failed]

(* ----------------------------- insert_keyframe ------------------------- *)

RECURSIVE ForceFirstPass(_, _, _, _, _, _, _)
\* lines 675-680: the first success ends the first pass
FirstPassKeyed(st1, array_index, mask, rna_path, frame, values, flag) ==
    IF LastResult(st1) = "SUCCESS" THEN [st |-> st1, exclude |-> array_index]
    ELSE ForceFirstPass(st1, array_index + 1, mask, rna_path, frame, values, flag)

\* lines 660-681: the first pass of force mode, up to the first success
ForceFirstPass(st, array_index, mask, rna_path, frame, values, flag) ==
    IF array_index >= Len(values) THEN [st |-> st, exclude |-> -1]
    ELSE IF array_index \notin mask
    THEN ForceFirstPass(st, array_index + 1, mask, rna_path, frame, values, flag)
    ELSE FirstPassKeyed(
           KeyChannel(st, 1, rna_path, array_index, frame, values[array_index + 1], flag),
           array_index, mask, rna_path, frame, values, flag)

\* lines 686-708: the second pass of force mode, every other unmasked channel
RECURSIVE ForceSecondPass(_, _, _, _, _, _, _, _)
ForceSecondPass(st, array_index, exclude, mask, rna_path, frame, values, flag) ==
    IF array_index >= Len(values) THEN st
    ELSE IF array_index \notin mask \/ array_index = exclude
    THEN ForceSecondPass(st, array_index + 1, exclude, mask, rna_path, frame, values, flag)
    ELSE ForceSecondPass(
           KeyChannel(st, 1, rna_path, array_index, frame, values[array_index + 1], flag),
           array_index + 1, exclude, mask, rna_path, frame, values, flag)

\* a faulty variant of lines 683-685 that restarts without clearing the replace
\* and available bits of the flags
RestartRestricted(first, mask, rna_path, frame, values, flag) ==
    IF first.exclude # -1
    THEN ForceSecondPass(first.st, 0, first.exclude, mask, rna_path, frame, values, flag)
    ELSE first.st

\* lines 683-685: after a success the replace mode is dropped and the pass restarts
RestartRelaxed(first, mask, rna_path, frame, values, flag) ==
    IF first.exclude # -1
    THEN ForceSecondPass(first.st, 0, first.exclude, mask, rna_path, frame, values,
                         flag \ {"REPLACE", "AVAILABLE"})
    ELSE first.st

\* lines 657-710: in force mode, if any of the curves succeeds, drop the replace
\* mode and restart
KeyForceAll(st, mask, rna_path, frame, values, flag) ==
    RestartRelaxed(ForceFirstPass(st, 0, mask, rna_path, frame, values, flag),
                   mask, rna_path, frame, values, flag)

\* lines 713-733: simply insert all channels
RECURSIVE KeyAllChannels(_, _, _, _, _, _, _)
KeyAllChannels(st, array_index, mask, rna_path, frame, values, flag) ==
    IF array_index >= Len(values) THEN st
    ELSE IF array_index \notin mask
    THEN KeyAllChannels(st, array_index + 1, mask, rna_path, frame, values, flag)
    ELSE KeyAllChannels(
           KeyChannel(st, 1, rna_path, array_index, frame, values[array_index + 1], flag),
           array_index + 1, mask, rna_path, frame, values, flag)

\* lines 738-754: key a single index
KeySingleIndex(st, array_index, mask, rna_path, frame, values, flag) ==
    IF array_index >= 0 /\ array_index < Len(values) /\ array_index \in mask
    THEN KeyChannel(st, 1, rna_path, array_index, frame, values[array_index + 1], flag)
    ELSE st

\* lines 653-755: key the entire array, or a single index
KeyChannels(st, array_index, nla, rna_path, frame, values, flag) ==
    IF array_index = -1 \/ nla.force_all
    THEN IF nla.force_all /\ flag \cap {"REPLACE", "AVAILABLE"} # {}
         THEN KeyForceAll(st, nla.mask, rna_path, frame, values, flag)
         ELSE KeyAllChannels(st, 0, nla.mask, rna_path, frame, values, flag)
    ELSE KeySingleIndex(st, array_index, nla.mask, rna_path, frame, values, flag)

\* a faulty variant of lines 759-766 that tags without looking at key_count
TagAfterInsertAlways(key_count, act_ptr, w) ==
    (IF act_ptr # 0 THEN <<"ACTION">> ELSE <<>>)
    \o (IF w.has_adt /\ w.adt_action # 0 /\ w.adt_action # act_ptr
        THEN <<"ADT_ACTION">> ELSE <<>>)

\* lines 759-766: tag the Action written, and the ID's Action if it is another
TagAfterInsert(key_count, act_ptr, w) ==
    IF key_count > 0
    THEN (IF act_ptr # 0 THEN <<"ACTION">> ELSE <<>>)
         \o (IF w.has_adt /\ w.adt_action # 0 /\ w.adt_action # act_ptr
             THEN <<"ADT_ACTION">> ELSE <<>>)
    ELSE <<>>

\* an early return with a single outcome, before any data is touched
EarlyReturn(w, result) ==
    CallOutcome(w, add(CombinedKeyingResult, result, 1), <<>>, <<>>, FALSE, 0, 0, "none", FALSE)

\* nla_time_remap, lines 436-446: the cache after it and the frame to key at
nla_time_remap(use_context, nla_cache, eval_time) ==
    IF use_context
    THEN [nla_cache |-> BKE_animsys_get_nla_keyframing_context(nla_cache),
          frame |-> BKE_nla_tweakedit_remap(eval_time)]
    ELSE [nla_cache |-> nla_cache, frame |-> eval_time]

\* a faulty variant of lines 757-768 that returns without freeing the cache
InsertKeyframeReturnLeaking(ens, use_context, nla_cache, st) ==
    CallOutcome([ens.w EXCEPT !.act = st.act], st.result, st.log,
                TagAfterInsert(st.key_count, ens.act_ptr, ens.w),
                use_context, 0, nla_cache, "legacy", FALSE)

\* lines 757-768: free the cache, tag, return
InsertKeyframeReturn(ens, use_context, nla_cache, st) ==
    CallOutcome([ens.w EXCEPT !.act = st.act], st.result, st.log,
                TagAfterInsert(st.key_count, ens.act_ptr, ens.w),
                use_context, 1,
                BKE_animsys_free_nla_keyframing_context_cache(nla_cache),
                "legacy", FALSE)

\* lines 639-755, after nla_time_remap
InsertKeyframeMapped(ens, use_context, mapped, rna_path, array_index, flag, v, nla) ==
    InsertKeyframeReturn(
        ens, use_context, mapped.nla_cache,
        KeyChannels(CallState(ens.w.act), array_index, nla, rna_path, mapped.frame,
                    get_keyframe_values(rna_path, v), flag))

\* lines 626-637, after id_action_ensure
InsertKeyframeEnsured(w, ens, rna_path, array_index, frame, flag, v, nla) ==
    IF ens.act_ptr = 0 THEN EarlyReturn(w, "ID_NOT_ANIMATABLE")
    ELSE InsertKeyframeMapped(
           ens, ens.w.has_adt /\ ens.w.adt_action = ens.act_ptr,
           nla_time_remap(ens.w.has_adt /\ ens.w.adt_action = ens.act_ptr, 0, frame),
           rna_path, array_index, flag, v, nla)

\* a faulty variant of lines 613-630 that ensures the Action before the checks
insert_keyframe_ensuring(w, editable, animatable, rna_path, array_index, frame, flag, v, nla) ==
    IF ~editable THEN EarlyReturn(id_action_ensure(w, animatable).w, "ID_NOT_EDITABLE")
    ELSE IF ~RNA_path_resolve_property(rna_path)
    THEN EarlyReturn(id_action_ensure(w, animatable).w, "CANNOT_RESOLVE_PATH")
    ELSE InsertKeyframeEnsured(w, id_action_ensure(w, animatable), rna_path, array_index,
                               frame, flag, v, nla)

insert_keyframe(w, editable, animatable, rna_path, array_index, frame, flag, v, nla) ==
    IF ~editable THEN EarlyReturn(w, "ID_NOT_EDITABLE")
    ELSE IF ~RNA_path_resolve_property(rna_path) THEN EarlyReturn(w, "CANNOT_RESOLVE_PATH")
    ELSE InsertKeyframeEnsured(w, id_action_ensure(w, animatable), rna_path, array_index,
                               frame, flag, v, nla)

\* whether insert_keyframe gets as far as the NLA remap with these arguments
InsertKeyframeRemaps(editable, animatable, rna_path) ==
    editable /\ RNA_path_resolve_property(rna_path) /\ animatable

(* ------------------------- Action: layered data ------------------------ *)

\* index of the Binding with this handle, 0: none
binding_for_handle(a, handle) ==
    IF \E i \in 1..Len(a.bindings) : a.bindings[i].handle = handle
    THEN CHOOSE i \in 1..Len(a.bindings) : a.bindings[i].handle = handle
    ELSE 0

\* a new Binding gets the next handle of the Action; handle 0 is `unassigned`
binding_add_for_id(a) ==
    [a EXCEPT !.last_binding_handle = @ + 1,
              !.bindings = Append(@, [handle |-> a.last_binding_handle + 1])]

\* Action::assign_id(binding, id): the ID is animated by this Action and Binding
assign_id(w, handle) == [w EXCEPT !.adt_action = 1, !.adt_binding_handle = handle]

\* the default layer: one infinite keyframe strip without time offset
DefaultLayer ==
    [strips |-> <<[infinite |-> TRUE, frame_offset |-> 0, channelbags |-> <<>>]>>]

layer_ensure_at_least_one(a) ==
    IF Len(a.layers) > 0 THEN a ELSE [a EXCEPT !.layers = <<DefaultLayer>>]

\* index of the layer to key into, 0: none
get_layer_for_keyframing(a) == IF Len(a.layers) = 0 THEN 0 ELSE 1

\* index of the ChannelBag of a binding in a keyframe strip, 0: none
channelbag_for_binding(strip, handle) ==
    IF \E i \in 1..Len(strip.channelbags) : strip.channelbags[i].binding_handle = handle
    THEN CHOOSE i \in 1..Len(strip.channelbags) : strip.channelbags[i].binding_handle = handle
    ELSE 0

channelbag_for_binding_add(strip, handle) ==
    [strip EXCEPT !.channelbags = Append(@, [binding_handle |-> handle, fcurves |-> <<>>])]

\* index of the curve in a ChannelBag, <<0, 0>> without a ChannelBag or curve
FCurveInBag(strip, bag, rna_path, array_index) ==
    IF bag = 0 THEN <<0, 0>>
    ELSE IF FCurveIndex(strip.channelbags[bag].fcurves, rna_path, array_index) = 0
    THEN <<0, 0>>
    ELSE <<bag, FCurveIndex(strip.channelbags[bag].fcurves, rna_path, array_index)>>

\* KeyframeStrip::fcurve_find: <<ChannelBag index, F-Curve index>>, <<0, 0>>: none
fcurve_find(strip, handle, rna_path, array_index) ==
    FCurveInBag(strip, channelbag_for_binding(strip, handle), rna_path, array_index)

\* the curve of a ChannelBag, created if it is not there
FCurveEnsuredInBag(strip, bag, have, rna_path, array_index) ==
    IF have # 0 THEN [strip |-> strip, at |-> <<bag, have>>]
    ELSE [strip |-> [strip EXCEPT !.channelbags[bag].fcurves =
                                    Append(@, NewFCurve(rna_path, array_index))],
          at |-> <<bag, Len(strip.channelbags[bag].fcurves) + 1>>]

FCurveEnsured(strip, bag, rna_path, array_index) ==
    FCurveEnsuredInBag(strip, bag,
                       FCurveIndex(strip.channelbags[bag].fcurves, rna_path, array_index),
                       rna_path, array_index)

ChannelBagEnsured(strip, handle, rna_path, array_index) ==
    FCurveEnsured(strip, channelbag_for_binding(strip, handle), rna_path, array_index)

\* KeyframeStrip::fcurve_find_or_create
fcurve_find_or_create(strip, handle, rna_path, array_index) ==
    ChannelBagEnsured(IF channelbag_for_binding(strip, handle) = 0
                      THEN channelbag_for_binding_add(strip, handle)
                      ELSE strip,
                      handle, rna_path, array_index)

\* the strip with the written curve stored back
StoreStripFCurve(strip, at, written) ==
    [result |-> written.result,
     strip |-> [strip EXCEPT !.channelbags[at[1]].fcurves[at[2]] = written.fcu]]

\* the write into the curve found or created
StripWriteFound(strip, e, t, v, insert_key_flags) ==
    IF e.at[1] = 0 THEN [result |-> "CANNOT_CREATE_FCURVE", strip |-> strip]
    ELSE IF ~BKE_fcurve_is_keyframable(e.strip.channelbags[e.at[1]].fcurves[e.at[2]])
    THEN [result |-> "FCURVE_NOT_KEYFRAMEABLE", strip |-> e.strip]
    ELSE StoreStripFCurve(e.strip, e.at,
                          insert_vert_fcurve(e.strip.channelbags[e.at[1]].fcurves[e.at[2]],
                                             t, v, insert_key_flags))

\* KeyframeStrip::keyframe_insert: resolve or create the ChannelBag and the curve
\* as the flags allow, and write the key
keyframe_insert(strip, handle, rna_path, array_index, t, v, insert_key_flags) ==
    StripWriteFound(strip,
                    IF key_insertion_may_create_fcurve(insert_key_flags)
                    THEN fcurve_find_or_create(strip, handle, rna_path, array_index)
                    ELSE [strip |-> strip,
                          at |-> fcurve_find(strip, handle, rna_path, array_index)],
                    t, v, insert_key_flags)

\* the three assertions of insert_key_layer
InsertKeyLayerAsserts(layer) ==
    /\ Len(layer.strips) = 1
    /\ layer.strips[1].infinite
    /\ layer.strips[1].frame_offset = 0

\* the Action with the strip written by keyframe_insert stored back
StoreStrip(a, layer, r) == [result |-> r.result, act |-> [a EXCEPT !.layers[layer].strips[1] = r.strip]]

\* insert_key_layer on layer number `layer` of the Action
insert_key_layer(a, layer, handle, rna_path, array_index, t, v, insert_key_flags) ==
    StoreStrip(a, layer,
               keyframe_insert(a.layers[layer].strips[1], handle, rna_path, array_index,
                               t, v, insert_key_flags))

(* ------------------------ insert_key_layered_action -------------------- *)

\* lines 1092-1095: one insert_key_layer call, its outcome added to the aggregate
KeyLayeredChannel(st, p, rna_path, property_index, layer, handle, t, curval, flag) ==
    Record(st, p, property_index, flag,
           insert_key_layer(st.act, layer, handle, rna_path, property_index, t, curval, flag))

\* lines 1085-1096: one outcome for every array element the path's index allows
RECURSIVE KeyLayeredElements(_, _, _, _, _, _, _, _, _)
\* a faulty variant of lines 1088-1090 that keys every element whatever the
\* index of the path
KeyLayeredElementsAll(st, p, rna_path, property_index, layer, handle, t, values, flag) ==
    IF property_index >= Len(values) THEN st
    ELSE Only({KeyLayeredElements(keyed, p, rna_path, property_index + 1, layer, handle, t,
                                  values, flag) :
               keyed \in {KeyLayeredChannel(st, p, rna_path.path, property_index, layer,
                                            handle, t, values[property_index + 1], flag)}})

KeyLayeredElements(st, p, rna_path, property_index, layer, handle, t, values, flag) ==
    IF property_index >= Len(values) THEN st
    ELSE IF rna_path.index # -1 /\ rna_path.index # property_index
    THEN KeyLayeredElements(st, p, rna_path, property_index + 1, layer, handle, t, values, flag)
    ELSE Only({KeyLayeredElements(keyed, p, rna_path, property_index + 1, layer, handle, t,
                                  values, flag) :
               keyed \in {KeyLayeredChannel(st, p, rna_path.path, property_index, layer,
                                            handle, t, values[property_index + 1], flag)}})

\* lines 1067-1097: every requested path in turn
RECURSIVE KeyLayeredPaths(_, _, _, _, _, _, _, _)
KeyLayeredPaths(st, p, rna_paths, layer, handle, scene_frame, v, flag) ==
    IF p > Len(rna_paths) THEN st
    ELSE IF ~RNA_path_resolve_property(rna_paths[p].path)
    THEN KeyLayeredPaths([st EXCEPT !.result = add(@, "CANNOT_RESOLVE_PATH", 1)],
                         p + 1, rna_paths, layer, handle, scene_frame, v, flag)
    ELSE Only({KeyLayeredPaths(keyed, p + 1, rna_paths, layer, handle, scene_frame, v, flag) :
               keyed \in {KeyLayeredElements(st, p, rna_paths[p], 0, layer, handle,
                                             scene_frame,
                                             get_keyframe_values(rna_paths[p].path, v),
                                             flag)}})

\* line 1099
TagAfterLayeredInsert(st) == <<"ACTION">>

\* lines 1099-1101: tag the Action, return
LayeredReturn(w, asserts_hold, st) ==
    CallOutcome([w EXCEPT !.act = st.act], st.result, st.log, TagAfterLayeredInsert(st),
                FALSE, 0, 0, "layered", st.log # <<>> /\ ~asserts_hold)

\* lines 1062-1097, with the layer to key into
LayeredWithLayer(w, a, layer, handle, rna_paths, scene_frame, v, insert_key_flags) ==
    IF layer = 0
    THEN CallOutcome([w EXCEPT !.act = a], CombinedKeyingResult, <<>>, <<>>,
                     FALSE, 0, 0, "layered", TRUE)
    ELSE LayeredReturn(w, InsertKeyLayerAsserts(a.layers[layer]),
                       KeyLayeredPaths(CallState(a), 1, rna_paths, layer, handle,
                                       scene_frame, v, insert_key_flags))

\* lines 1053-1062, with the Binding of the ID
LayeredWithBinding(w, a, handle, rna_paths, scene_frame, v, insert_key_flags) ==
    LayeredWithLayer(w, layer_ensure_at_least_one(a),
                     get_layer_for_keyframing(layer_ensure_at_least_one(a)),
                     handle, rna_paths, scene_frame, v, insert_key_flags)

\* lines 1043-1051: a new Binding for the ID, assigned to it
LayeredNewBinding(w, a, rna_paths, scene_frame, v, insert_key_flags) ==
    LayeredWithBinding(assign_id(w, a.last_binding_handle), a, a.last_binding_handle,
                       rna_paths, scene_frame, v, insert_key_flags)

\* a faulty variant of lines 1042-1043 that adds a Binding on every call
insert_key_layered_action_rebinding(w, rna_paths, scene_frame, v, insert_key_flags) ==
    LayeredNewBinding(w, binding_add_for_id(w.act), rna_paths, scene_frame, v,
                      insert_key_flags)

insert_key_layered_action(w, rna_paths, scene_frame, v, insert_key_flags) ==
    IF binding_for_handle(w.act, w.adt_binding_handle) = 0
    THEN LayeredNewBinding(w, binding_add_for_id(w.act), rna_paths, scene_frame, v,
                           insert_key_flags)
    ELSE LayeredWithBinding(w, w.act, w.adt_binding_handle, rna_paths, scene_frame, v,
                            insert_key_flags)

(* ------------------------- insert_key_legacy_action -------------------- *)

\* lines 980-1002: every element of the property, the masked ones recorded as
\* rejected by the NLA stack
RECURSIVE KeyLegacyElements(_, _, _, _, _, _, _, _)
KeyLegacyElements(st, p, rna_path, property_array_index, frame, values, flag, keying_mask) ==
    IF property_array_index >= Len(values) THEN st
    ELSE IF property_array_index \notin keying_mask
    THEN KeyLegacyElements([st EXCEPT !.result = add(@, "UNABLE_TO_INSERT_TO_NLA_STACK", 1)],
                           p, rna_path, property_array_index + 1, frame, values, flag,
                           keying_mask)
    ELSE Only({KeyLegacyElements(keyed, p, rna_path, property_array_index + 1, frame, values,
                                 flag, keying_mask) :
               keyed \in {KeyChannel(st, p, rna_path, property_array_index, frame,
                                     values[property_array_index + 1], flag)}})

\* The aggregate of the call is built on its own and merged by the caller.
insert_key_legacy_action(a, p, rna_path, frame, values, insert_key_flag, keying_mask) ==
    KeyLegacyElements(CallState(a), p, rna_path, 0, frame, values, insert_key_flag,
                      keying_mask)

(* ------------------------------ insert_key_rna ------------------------- *)

\* RNA_path_from_ID_to_property: the properties here are properties of the ID
\* itself, whose path from the ID is the path they were resolved by
RNA_path_from_ID_to_property(rna_path) == rna_path

\* line 1185: combined_result.merge(result)
MergeLegacy(st, r) ==
    [act |-> r.act, result |-> merge(st.result, r.result), log |-> st.log \o r.log,
     key_count |-> st.key_count + r.key_count]

\* lines 1153-1186: every requested path in turn, through the legacy writer
RECURSIVE KeyLegacyPaths(_, _, _, _, _, _)
\* a faulty variant of lines 1158-1161 that leaves the loop at a path that does
\* not resolve
KeyLegacyPathsStopping(st, p, rna_paths, nla_frame, v, flag) ==
    IF p > Len(rna_paths) THEN st
    ELSE IF ~RNA_path_resolve_property(rna_paths[p].path)
    THEN [st EXCEPT !.result = add(@, "CANNOT_RESOLVE_PATH", 1)]
    ELSE Only({KeyLegacyPaths(MergeLegacy(st, result), p + 1, rna_paths, nla_frame, v, flag) :
               result \in {insert_key_legacy_action(
                               st.act, p, RNA_path_from_ID_to_property(rna_paths[p].path),
                               nla_frame, get_keyframe_values(rna_paths[p].path, v), flag,
                               rna_paths[p].nla.mask)}})

KeyLegacyPaths(st, p, rna_paths, nla_frame, v, flag) ==
    IF p > Len(rna_paths) THEN st
    ELSE IF ~RNA_path_resolve_property(rna_paths[p].path)
    THEN KeyLegacyPaths([st EXCEPT !.result = add(@, "CANNOT_RESOLVE_PATH", 1)],
                        p + 1, rna_paths, nla_frame, v, flag)
    ELSE Only({KeyLegacyPaths(MergeLegacy(st, result), p + 1, rna_paths, nla_frame, v, flag) :
               result \in {insert_key_legacy_action(
                               st.act, p, RNA_path_from_ID_to_property(rna_paths[p].path),
                               nla_frame, get_keyframe_values(rna_paths[p].path, v), flag,
                               rna_paths[p].nla.mask)}})

\* lines 1187-1189: the legacy branch frees the cache and returns
TagAfterLegacyRna(st) == <<>>

LegacyRnaReturn(w, use_context, nla_cache, assert_failed, st) ==
    CallOutcome([w EXCEPT !.act = st.act], st.result, st.log, TagAfterLegacyRna(st),
                use_context, 1, BKE_animsys_free_nla_keyframing_context_cache(nla_cache),
                "legacy", assert_failed)

\* lines 1140-1189: the legacy branch
InsertKeyRnaLegacy(w, use_context, rna_paths, scene_frame, insert_key_flags, v) ==
    LegacyRnaReturn(
        w, use_context,
        IF use_context THEN BKE_animsys_get_nla_keyframing_context(0) ELSE 0,
        /\ \E p \in 1..Len(rna_paths) : RNA_path_resolve_property(rna_paths[p].path)
        /\ ~is_action_legacy(w.act),
        KeyLegacyPaths(CallState(w.act), 1, rna_paths, BKE_nla_tweakedit_remap(scene_frame),
                       v, insert_key_flags))

\* a faulty variant of line 1125 that takes the layered branch whenever the
\* feature is enabled
InsertKeyRnaEnsuredByGate(ens, baklava, rna_paths, scene_frame, insert_key_flags, v) ==
    IF baklava
    THEN insert_key_layered_action(ens.w, rna_paths, scene_frame, v, insert_key_flags)
    ELSE InsertKeyRnaLegacy(ens.w, ens.w.has_adt /\ ens.w.adt_action = ens.act_ptr,
                            rna_paths, scene_frame, insert_key_flags, v)

\* lines 1122-1189, after id_action_ensure
InsertKeyRnaEnsured(ens, baklava, rna_paths, scene_frame, insert_key_flags, v) ==
    IF baklava /\ is_action_layered(ens.w.act)
    THEN insert_key_layered_action(ens.w, rna_paths, scene_frame, v, insert_key_flags)
    ELSE InsertKeyRnaLegacy(ens.w, ens.w.has_adt /\ ens.w.adt_action = ens.act_ptr,
                            rna_paths, scene_frame, insert_key_flags, v)

\* a faulty variant of lines 1116-1122 that ensures the Action before it looks
\* at the AnimData
insert_key_rna_ensuring(w, animatable, baklava, rna_paths, scene_frame, insert_key_flags, v) ==
    IF ~animatable THEN EarlyReturn(ActionEnsured(w), "ID_NOT_ANIMATABLE")
    ELSE InsertKeyRnaEnsured(
           id_action_ensure(BKE_animdata_ensure_id(w, animatable), animatable),
           baklava, rna_paths, scene_frame, insert_key_flags, v)

insert_key_rna(w, animatable, baklava, rna_paths, scene_frame, insert_key_flags, v) ==
    IF ~animatable THEN EarlyReturn(w, "ID_NOT_ANIMATABLE")
    ELSE InsertKeyRnaEnsured(
           id_action_ensure(BKE_animdata_ensure_id(w, animatable), animatable),
           baklava, rna_paths, scene_frame, insert_key_flags, v)

(* --------------------------- insert_keyframe_direct -------------------- *)

\* a faulty variant of lines 316-320 that takes every index as intended
FailedRemapsOfAll(index, count, force_all, successful_remaps) ==
    {i \in 0..(count - 1) : i \notin successful_remaps}

\* get_keyframe_values_create_reports, lines 314-330: the indices that were to be
\* remapped and were not
FailedRemaps(index, count, force_all, successful_remaps) ==
    {i \in 0..(count - 1) : (index = i \/ index = -1 \/ force_all) /\ i \notin successful_remaps}

\* lines 369-385, with the mask BKE_animsys_nla_remap_keyframe_values filled: the
\* mask, and the reports of get_keyframe_values_create_reports (lines 332-347),
\* none or one warning with total_failed and the failed indices as the loop
\* appended them, in rising order
nla_map_keyframe_values_and_generate_reports(index, count, successful_remaps) ==
    [successful_remaps |-> successful_remaps,
     reports |->
        IF FailedRemaps(index, count, FALSE, successful_remaps) = {} THEN <<>>
        ELSE <<[type |-> "WARNING",
                total_failed |->
                    Cardinality(FailedRemaps(index, count, FALSE, successful_remaps)),
                indices |->
                    [n \in 1..Cardinality(FailedRemaps(index, count, FALSE, successful_remaps))
                       |-> CHOOSE i \in FailedRemaps(index, count, FALSE, successful_remaps) :
                              Cardinality({j \in FailedRemaps(index, count, FALSE,
                                                               successful_remaps) : j < i})
                                 = n - 1]]>>]

\* What insert_keyframe_direct returns and leaves behind: the Action with the
\* curve, the outcome of the curve-level write ("none": not reached), the flag
\* words of the point insertions, and the reports emitted.
DirectOutcome(ok, a, result, vert_calls, errors, warnings) ==
    [ok |-> ok, act |-> a, result |-> result, vert_calls |-> vert_calls,
     errors |-> errors, warnings |-> warnings]

\* lines 538-549: the outcome of the write, with an error report if it failed
DirectWritten(a, ix, written, warnings) ==
    DirectOutcome(written.result = "SUCCESS", [a EXCEPT !.curves[ix] = written.fcu],
                  written.result, written.vert_calls,
                  IF written.result # "SUCCESS" THEN 1 ELSE 0, warnings)

\* a faulty variant of lines 533-536 that writes whatever the remap answered
DirectOnCurveUnchecked(a, ix, fcu, values, successful_remaps, cfra, flag) ==
    DirectWritten(a, ix,
                  insert_keyframe_value(
                      fcu, cfra,
                      IF fcu.array_index >= 0 /\ fcu.array_index < Len(values)
                      THEN values[fcu.array_index + 1] ELSE 0,
                      flag),
                  nla_map_keyframe_values_and_generate_reports(
                      fcu.array_index, Len(values), successful_remaps).reports)

\* lines 513-549, for the curve fcu of the Action, with the values of its property
DirectOnCurve(a, ix, fcu, values, successful_remaps, cfra, flag) ==
    IF fcu.array_index \notin successful_remaps
    THEN DirectOutcome(FALSE, a, "none", <<>>, 0,
                       nla_map_keyframe_values_and_generate_reports(
                           fcu.array_index, Len(values), successful_remaps).reports)
    ELSE DirectWritten(a, ix,
                       insert_keyframe_value(
                           fcu, cfra,
                           IF fcu.array_index >= 0 /\ fcu.array_index < Len(values)
                           THEN values[fcu.array_index + 1] ELSE 0,
                           flag),
                       nla_map_keyframe_values_and_generate_reports(
                           fcu.array_index, Len(values), successful_remaps).reports)

\* ix: the curve of the Action the caller passes, 0 for a null pointer
insert_keyframe_direct(a, ix, has_ptr, has_prop, successful_remaps, cfra, v, flag) ==
    IF ix = 0 THEN DirectOutcome(FALSE, a, "none", <<>>, 1, <<>>)
    ELSE IF ~has_ptr THEN DirectOutcome(FALSE, a, "none", <<>>, 1, <<>>)
    ELSE IF ~has_prop /\ ~RNA_path_resolve_property(a.curves[ix].rna_path)
    THEN DirectOutcome(FALSE, a, "none", <<>>, 1, <<>>)
    ELSE DirectOnCurve(a, ix, a.curves[ix], get_keyframe_values(a.curves[ix].rna_path, v),
                       successful_remaps, cfra, flag)

(* ----------------------- delete_keyframe, clear_keyframe --------------- *)

\* the key of a curve nearest to time t, the earlier one of two equally near
NearestKey(fcu, t) ==
    LET Dist(n) == IF fcu.bezt[n][1] >= t THEN fcu.bezt[n][1] - t ELSE t - fcu.bezt[n][1]
    IN  CHOOSE i \in 1..Len(fcu.bezt) :
           /\ \A j \in 1..Len(fcu.bezt) : Dist(i) <= Dist(j)
           /\ \A j \in 1..(i - 1) : Dist(j) > Dist(i)

RemoveAt(s, n) == SubSeq(s, 1, n - 1) \o SubSeq(s, n + 1, Len(s))

\* animdata_fcurve_delete: the curve leaves the Action (and its group) and is
\* freed; an Action left without curves is unassigned from the AnimData
animdata_fcurve_delete(w, ix) ==
    IF Len(w.act.curves) = 1
    THEN [w EXCEPT !.act.curves = RemoveAt(@, ix), !.adt_action = 0]
    ELSE [w EXCEPT !.act.curves = RemoveAt(@, ix)]

\* delete_keyframe_fcurve: removes the key nearest to cfra, and the curve with
\* its last key; how many keys it removed
delete_keyframe_fcurve(w, ix, cfra) ==
    IF totvert(w.act.curves[ix]) = 0 THEN [w |-> w, removed |-> 0]
    ELSE IF totvert(w.act.curves[ix]) = 1
    THEN [w |-> animdata_fcurve_delete(w, ix), removed |-> 1]
    ELSE [w |-> [w EXCEPT !.act.curves[ix].bezt =
                             RemoveAt(@, NearestKey(w.act.curves[ix], cfra))],
          removed |-> 1]

\* a faulty variant of lines 845-847 that adds the extra index for arrays too
IndexRangePlusOne(rna_path, array_index) ==
    IF array_index # -1 THEN <<array_index, array_index + 1>>
    ELSE <<0, RNA_property_array_length(rna_path) + 1>>

\* lines 835-848: the first array index to visit and the one after the last
IndexRange(rna_path, array_index) ==
    IF array_index # -1 THEN <<array_index, array_index + 1>>
    ELSE IF RNA_property_array_length(rna_path) = 0 THEN <<0, 1>>
    ELSE <<0, RNA_property_array_length(rna_path)>>

\* lines 859-866, 942-949: the warning for a locked curve
LockedWarning(st, array_index) ==
    [st EXCEPT !.reports = Append(@, [type |-> "WARNING", index |-> array_index])]

\* line 869
KeyCounted(st, deleted) == [st EXCEPT !.w = deleted.w, !.key_count = @ + deleted.removed]

\* a faulty variant of lines 859-867 that deletes from a locked curve as well
DeleteKeyframeAtForced(st, fcu, array_index, cfra) ==
    IF fcu = 0 THEN st ELSE KeyCounted(st, delete_keyframe_fcurve(st.w, fcu, cfra))

\* lines 853-869: one array index, with the curve found for it (0: none)
DeleteKeyframeAt(st, fcu, array_index, cfra) ==
    IF fcu = 0 THEN st
    ELSE IF BKE_fcurve_is_protected(st.w.act.curves[fcu]) THEN LockedWarning(st, array_index)
    ELSE KeyCounted(st, delete_keyframe_fcurve(st.w, fcu, cfra))

\* lines 852-870: will only loop once unless the array index was -1
RECURSIVE DeleteKeyframeIndices(_, _, _, _, _)
DeleteKeyframeIndices(st, rna_path, array_index, array_index_max, cfra) ==
    IF array_index >= array_index_max THEN st
    ELSE Only({DeleteKeyframeIndices(done, rna_path, array_index + 1, array_index_max, cfra) :
               done \in {DeleteKeyframeAt([st EXCEPT !.visited = Append(@, array_index)],
                                          action_fcurve_find(st.w.act, rna_path, array_index),
                                          array_index, cfra)}})

\* a faulty variant of lines 784-793 that tags the Action in every case
deg_tag_after_keyframe_delete_plain(w) == <<"ACTION">>

\* lines 782-794: with the last curve gone the ID is tagged and the relations
\* are rebuilt, else the Action of the ID is tagged
deg_tag_after_keyframe_delete(w) ==
    IF w.adt_action = 0 THEN <<"ID", "RELATIONS">> ELSE <<"ACTION">>

\* What delete_keyframe and clear_keyframe return and leave behind.
DeleteOutcome(w, key_count, reports, visited, deg) ==
    [w |-> w, key_count |-> key_count, reports |-> reports, visited |-> visited, deg |-> deg]

\* an early return with an error report
DeleteError(w) == DeleteOutcome(w, 0, <<[type |-> "ERROR", index |-> -1]>>, <<>>, <<>>)

\* a faulty variant of lines 871-873 that tags whatever the count
DeleteReturnTagging(st) ==
    DeleteOutcome(st.w, st.key_count, st.reports, st.visited,
                  deg_tag_after_keyframe_delete(st.w))

\* lines 871-875, 956-960
DeleteReturn(st) ==
    DeleteOutcome(st.w, st.key_count, st.reports, st.visited,
                  IF st.key_count # 0 THEN deg_tag_after_keyframe_delete(st.w) ELSE <<>>)

\* act_given: the caller passes the Action of the ID instead of a null pointer.
\* The loop runs on the ID's animation data, the removals counted, the reports
\* emitted and the array indices looked up.
delete_keyframe(w, has_id, act_given, rna_path, array_index, cfra) ==
    IF ~has_id \/ ~w.has_adt THEN DeleteError(w)
    ELSE IF ~RNA_path_resolve_property(rna_path) THEN DeleteError(w)
    ELSE IF ~act_given /\ w.adt_action = 0 THEN DeleteError(w)
    ELSE DeleteReturn(DeleteKeyframeIndices(
             [w |-> w, key_count |-> 0, reports |-> <<>>, visited |-> <<>>], rna_path,
             IndexRange(rna_path, array_index)[1], IndexRange(rna_path, array_index)[2],
             IF act_given THEN cfra ELSE BKE_nla_tweakedit_remap(cfra)))

\* a faulty variant of lines 952-954 that removes one key of the curve
ClearKeyframeAtOneKey(st, fcu, array_index) ==
    IF fcu = 0 THEN st
    ELSE IF BKE_fcurve_is_protected(st.w.act.curves[fcu]) THEN LockedWarning(st, array_index)
    ELSE KeyCounted(st, delete_keyframe_fcurve(st.w, fcu, 1))

\* lines 936-954: one array index, with the curve found for it (0: none)
ClearKeyframeAt(st, fcu, array_index) ==
    IF fcu = 0 THEN st
    ELSE IF BKE_fcurve_is_protected(st.w.act.curves[fcu]) THEN LockedWarning(st, array_index)
    ELSE [st EXCEPT !.w = animdata_fcurve_delete(st.w, fcu), !.key_count = @ + 1]

\* lines 935-955
RECURSIVE ClearKeyframeIndices(_, _, _, _)
ClearKeyframeIndices(st, rna_path, array_index, array_index_max) ==
    IF array_index >= array_index_max THEN st
    ELSE Only({ClearKeyframeIndices(done, rna_path, array_index + 1, array_index_max) :
               done \in {ClearKeyframeAt([st EXCEPT !.visited = Append(@, array_index)],
                                         action_fcurve_find(st.w.act, rna_path, array_index),
                                         array_index)}})

clear_keyframe(w, has_id, act_given, rna_path, array_index) ==
    IF ~has_id \/ ~w.has_adt THEN DeleteError(w)
    ELSE IF ~RNA_path_resolve_property(rna_path) THEN DeleteError(w)
    ELSE IF ~act_given /\ w.adt_action = 0 THEN DeleteError(w)
    ELSE DeleteReturn(ClearKeyframeIndices(
             [w |-> w, key_count |-> 0, reports |-> <<>>, visited |-> <<>>], rna_path,
             IndexRange(rna_path, array_index)[1], IndexRange(rna_path, array_index)[2]))

(* ------------------------------- the state ----------------------------- *)

VARIABLES
    id_editable,    \* BKE_id_is_editable(bmain, id)
    id_animatable,  \* whether the ID's type can carry an AnimData
    world,          \* the ID's AnimData and Action, see World
    pc,             \* "idle": between calls; "returned": a call has just returned
    ncalls,         \* top-level calls made so far
    ret,            \* the call that has just returned: arguments, outcome, state before
    crashed         \* an assertion has stopped a debug build

vars == <<id_editable, id_animatable, world, pc, ncalls, ret, crashed>>

NoArgs == [rna_paths |-> <<>>, frame |-> 0, flag |-> {}, v |-> 0, baklava |-> FALSE]

NoCall ==
    [op |-> "none", args |-> NoArgs, pre |-> World(FALSE, 0, 0, NewAction),
     out |-> CallOutcome(World(FALSE, 0, 0, NewAction), CombinedKeyingResult, <<>>, <<>>,
                         FALSE, 0, 0, "none", FALSE)]

Init ==
    /\ id_editable \in BOOLEAN
    /\ id_animatable \in BOOLEAN
    /\ world = World(FALSE, 0, 0, NewAction)
    /\ pc = "idle"
    /\ ncalls = 0
    /\ ret = NoCall
    /\ crashed = FALSE

\* A call returns `out`.  A failed BLI_assert stops a debug build there and is
\* compiled out of a release build, which goes on: both are behaviours.
Returns(op, args, out) ==
    \E abort \in (IF out.assert_failed THEN BOOLEAN ELSE {FALSE}) :
       /\ ret' = [op |-> op, args |-> args, pre |-> world, out |-> out]
       /\ world' = IF abort THEN world ELSE out.w
       /\ crashed' = abort
       /\ pc' = "returned"
       /\ ncalls' = ncalls + 1
       /\ UNCHANGED <<id_editable, id_animatable>>

CanCall == pc = "idle" /\ ~crashed /\ ncalls < MaxCalls

\* the array indices insert_keyframe is called with
ArrayIndices == {-1, 0, 1, 2}

InsertKeyframe ==
    /\ CanCall
    /\ \E rna_path \in Paths, array_index \in ArrayIndices, frame \in Frames,
          flag \in FlagChoices, v \in Values :
        \E nla \in (IF InsertKeyframeRemaps(id_editable, id_animatable, rna_path)
                    THEN NlaRemapOutcomes(TRUE, array_index, 3, TRUE)
                    ELSE {NoNla}) :
           Returns("insert_keyframe",
                   [rna_paths |-> <<[path |-> rna_path, index |-> array_index, nla |-> nla]>>,
                    frame |-> frame, flag |-> flag, v |-> v, baklava |-> FALSE],
                   insert_keyframe(world, id_editable, id_animatable, rna_path, array_index,
                                   frame, flag, v, nla))

\* the array indices an RNAPath is restricted to; -1: no index
RnaIndices == {-1, 1}

\* One RNAPath of a call together with the NLA stack's answer for it, which only
\* the legacy branch asks for.
RNAPathChoices(legacy) ==
    {[path |-> "bogus", index |-> -1, nla |-> NoNla]}
    \cup {[path |-> "location", index |-> i, nla |-> n] :
            i \in RnaIndices,
            n \in (IF legacy THEN UNION {NlaRemapOutcomes(TRUE, j, 3, FALSE) : j \in RnaIndices}
                   ELSE {NoNla})}

RNAPathOk(rp, legacy) ==
    rp.path = "location" /\ legacy => rp.nla \in NlaRemapOutcomes(TRUE, rp.index, 3, FALSE)

\* the spans of one or two RNAPaths a call is made with
RNAPathSeqs(legacy) ==
    LET one == {rp \in RNAPathChoices(legacy) : RNAPathOk(rp, legacy)}
    IN {<<a>> : a \in one} \cup {<<a, b>> : a \in one, b \in one}

\* whether insert_key_rna takes the legacy branch
TakesLegacyBranch(w, animatable, baklava) ==
    animatable /\ ~(baklava /\ is_action_layered(id_action_ensure(w, animatable).w.act))

InsertKeyRna ==
    /\ CanCall
    /\ \E baklava \in BOOLEAN, frame \in Frames, flag \in FlagChoices, v \in Values :
        \E rna_paths \in RNAPathSeqs(TakesLegacyBranch(world, id_animatable, baklava)) :
           Returns("insert_key_rna",
                   [rna_paths |-> rna_paths, frame |-> frame, flag |-> flag, v |-> v,
                    baklava |-> baklava],
                   insert_key_rna(world, id_animatable, baklava, rna_paths, frame, flag, v))

\* the caller is done with the returned aggregate
Discard ==
    /\ pc = "returned"
    /\ ~crashed
    /\ pc' = "idle"
    /\ ret' = NoCall
    /\ UNCHANGED <<id_editable, id_animatable, world, ncalls, crashed>>

Next == InsertKeyframe \/ InsertKeyRna \/ Discard

(* ------------------------ one call on a given curve -------------------- *)

\* the keys of the curve of location[1] that earlier edits have left: none, one,
\* two over [0, 4], two over [0, 10], and two moved onto the same frame
CurveKeys ==
    {<<>>, <<<<2, 1>>>>, <<<<0, 0>>, <<4, 2>>>>, <<<<0, 0>>, <<10, 5>>>>, <<<<2, 1>>, <<2, 3>>>>}

\* the Cycles modifier of the curve: none, or its modes before and after
CycleModes ==
    {[has_cycles |-> FALSE, before_mode |-> "CYCLIC", after_mode |-> "CYCLIC"]}
    \cup {[has_cycles |-> TRUE, before_mode |-> b, after_mode |-> a] :
            b \in {"CYCLIC", "CYCLIC_OFFSET"}, a \in {"CYCLIC", "CYCLIC_OFFSET"}}

\* the curve of location[1], or a curve whose path no longer resolves
StartCurves ==
    {[rna_path |-> "location", array_index |-> 1, bezt |-> k, protected |-> l,
      has_cycles |-> m.has_cycles, before_mode |-> m.before_mode,
      after_mode |-> m.after_mode] :
        k \in CurveKeys, l \in BOOLEAN, m \in CycleModes}
    \cup {[rna_path |-> "bogus", array_index |-> 1, bezt |-> <<<<2, 1>>>>, protected |-> FALSE,
           has_cycles |-> FALSE, before_mode |-> "CYCLIC", after_mode |-> "CYCLIC"]}

\* a legacy Action with one curve, cyclic over the frame range [0, 4] or not
StartAction(fcu, cyclic) ==
    [NewAction EXCEPT !.curves = <<fcu>>, !.cyclic = cyclic, !.frame_start = 0,
                      !.frame_end = IF cyclic THEN 4 ELSE 0]

\* An editable ID animated by a legacy Action with one curve; the calls before
\* have been made, one more follows.  A cyclic Action can have a frame range of
\* no length: its start and end are set alike.
InitCurve ==
    /\ id_editable = TRUE
    /\ id_animatable = TRUE
    /\ \/ \E fcu \in StartCurves, cyclic \in BOOLEAN :
             world = World(TRUE, 1, 0, StartAction(fcu, cyclic))
       \/ \E fcu \in {c \in StartCurves : ~c.protected /\ ~c.has_cycles} :
             world = World(TRUE, 1, 0, [StartAction(fcu, TRUE) EXCEPT !.frame_end = 0])
    /\ pc = "idle"
    /\ ncalls = MaxCalls - 1
    /\ ret = NoCall
    /\ crashed = FALSE

\* the times and values a curve-level call is made with
DirectFrames == {-7, 1, 3, 4, 23}

\* a call of the cycle remapper on the curve, as insert_keyframe_value makes it
RemapCyclicKeyframeLocation ==
    /\ CanCall
    /\ \E px \in DirectFrames, py \in Values :
          ret' = [op |-> "remap_cyclic_keyframe_location",
                  args |-> [px |-> px, py |-> py],
                  pre |-> world,
                  out |-> remap_cyclic_keyframe_location(world.act.curves[1], px, py)]
    /\ pc' = "returned"
    /\ ncalls' = ncalls + 1
    /\ UNCHANGED <<id_editable, id_animatable, world, crashed>>

InsertKeyframeDirect ==
    /\ CanCall
    /\ \E ix \in {0, 1}, has_ptr \in BOOLEAN,
          has_prop \in {p \in BOOLEAN :
                          p => RNA_path_resolve_property(world.act.curves[1].rna_path)},
          cfra \in DirectFrames, v \in Values, flag \in FlagChoices :
        \E nla \in NlaRemapOutcomes(TRUE, 1, 3, FALSE) :
           /\ ret' = [op |-> "insert_keyframe_direct",
                      args |-> [ix |-> ix, has_ptr |-> has_ptr, has_prop |-> has_prop,
                                nla |-> nla, frame |-> cfra, v |-> v, flag |-> flag],
                      pre |-> world,
                      out |-> insert_keyframe_direct(world.act, ix, has_ptr, has_prop,
                                                     nla.mask, cfra, v, flag)]
           /\ world' = [world EXCEPT !.act = ret'.out.act]
    /\ pc' = "returned"
    /\ ncalls' = ncalls + 1
    /\ UNCHANGED <<id_editable, id_animatable, crashed>>

\* the NLA remap step on the three values of location, asked for one index or
\* for all of them
NlaMapKeyframeValues ==
    /\ CanCall
    /\ \E index \in {-1, 0, 1, 2} :
        \E nla \in NlaRemapOutcomes(TRUE, index, 3, FALSE) :
           ret' = [op |-> "nla_map_keyframe_values_and_generate_reports",
                   args |-> [index |-> index, count |-> 3, nla |-> nla],
                   pre |-> world,
                   out |-> nla_map_keyframe_values_and_generate_reports(index, 3, nla.mask)]
    /\ pc' = "returned"
    /\ ncalls' = ncalls + 1
    /\ UNCHANGED <<id_editable, id_animatable, world, crashed>>

SpecCurve ==
    InitCurve /\ [][RemapCyclicKeyframeLocation \/ InsertKeyframeDirect \/ NlaMapKeyframeValues
                       \/ InsertKeyframe \/ Discard]_vars

(* ------------------- one deletion on a given set of curves ------------- *)

\* a legacy curve with keys of value 1 at the given times
CurveWith(rna_path, array_index, times, locked) ==
    [NewFCurve(rna_path, array_index) EXCEPT
        !.bezt = [k \in 1..Len(times) |-> <<times[k], 1>>], !.protected = locked]

\* the curves earlier calls and the user have left, per channel: none or
\* one, with one or two keys, locked or not
StartCurveLists ==
    {c0 \o c1 \o c2 \o c3 :
        c0 \in {<<>>, <<CurveWith("location", 0, <<1>>, FALSE)>>},
        c1 \in {<<>>, <<CurveWith("location", 1, <<1>>, FALSE)>>,
                <<CurveWith("location", 1, <<1, 2>>, FALSE)>>,
                <<CurveWith("location", 1, <<1>>, TRUE)>>},
        c2 \in {<<>>, <<CurveWith("location", 2, <<2>>, FALSE)>>,
                <<CurveWith("location", 2, <<1>>, TRUE)>>},
        c3 \in {<<>>, <<CurveWith("pass_index", 0, <<1>>, FALSE)>>}}

\* An ID without AnimData, with AnimData and no Action, or animated by a legacy
\* Action holding some of the curves; one call follows.
InitDelete ==
    /\ id_editable = TRUE
    /\ id_animatable = TRUE
    /\ world \in {World(FALSE, 0, 0, NewAction), World(TRUE, 0, 0, NewAction)}
                 \cup {World(TRUE, 1, 0, [NewAction EXCEPT !.curves = c]) :
                         c \in StartCurveLists}
    /\ pc = "idle"
    /\ ncalls = MaxCalls - 1
    /\ ret = NoCall
    /\ crashed = FALSE

\* The calls are made with a path that resolves to an array or a scalar property
\* or does not resolve, and the caller can pass the Action of the ID only if
\* there is one.
DeleteKeyframe ==
    /\ CanCall
    /\ \E has_id \in BOOLEAN, rna_path \in {"location", "pass_index", "bogus"},
          array_index \in ArrayIndices, cfra \in Frames :
        \E act_given \in (IF has_id /\ world.has_adt /\ world.adt_action # 0
                          THEN BOOLEAN ELSE {FALSE}) :
           /\ ret' = [op |-> "delete_keyframe",
                      args |-> [has_id |-> has_id, act_given |-> act_given,
                                rna_path |-> rna_path, array_index |-> array_index,
                                frame |-> cfra],
                      pre |-> world,
                      out |-> delete_keyframe(world, has_id, act_given, rna_path,
                                              array_index, cfra)]
           /\ world' = ret'.out.w
    /\ pc' = "returned"
    /\ ncalls' = ncalls + 1
    /\ UNCHANGED <<id_editable, id_animatable, crashed>>

ClearKeyframe ==
    /\ CanCall
    /\ \E has_id \in BOOLEAN, rna_path \in {"location", "pass_index", "bogus"},
          array_index \in ArrayIndices :
        \E act_given \in (IF has_id /\ world.has_adt /\ world.adt_action # 0
                          THEN BOOLEAN ELSE {FALSE}) :
           /\ ret' = [op |-> "clear_keyframe",
                      args |-> [has_id |-> has_id, act_given |-> act_given,
                                rna_path |-> rna_path, array_index |-> array_index],
                      pre |-> world,
                      out |-> clear_keyframe(world, has_id, act_given, rna_path,
                                             array_index)]
           /\ world' = ret'.out.w
    /\ pc' = "returned"
    /\ ncalls' = ncalls + 1
    /\ UNCHANGED <<id_editable, id_animatable, crashed>>

SpecDelete == InitDelete /\ [][DeleteKeyframe \/ ClearKeyframe \/ Discard]_vars

(* --------------------- insertions, deletions and clears ---------------- *)

SpecEdit ==
    Init /\ [][InsertKeyframe \/ InsertKeyRna \/ DeleteKeyframe \/ ClearKeyframe \/ Discard]_vars

(* ----------------------- one CombinedKeyingResult ----------------------- *)

\* A freshly constructed aggregate; the ID and its animation play no part.  ret
\* holds the last call on the aggregate: pre is the aggregate before it, out
\* the aggregate after it and what the call gave.
InitResult ==
    /\ id_editable = TRUE
    /\ id_animatable = TRUE
    /\ world = World(FALSE, 0, 0, NewAction)
    /\ pc = "idle"
    /\ ncalls = 0
    /\ ret = [op |-> "CombinedKeyingResult", args |-> NoArgs, pre |-> CombinedKeyingResult,
              out |-> [result |-> CombinedKeyingResult]]
    /\ crashed = FALSE

Add ==
    /\ ncalls < MaxOps
    /\ \E result \in KindSet, count \in 0..MaxCount :
          ret' = [op |-> "add", args |-> [result |-> result, count |-> count],
                  pre |-> ret.out.result,
                  out |-> [result |-> add(ret.out.result, result, count)]]
    /\ ncalls' = ncalls + 1
    /\ UNCHANGED <<id_editable, id_animatable, world, pc, crashed>>

\* the aggregates merged in are the results of other calls, of up to two kinds;
\* other is passed by const reference and only read
Merge ==
    /\ ncalls < MaxOps
    /\ \E other \in {add(add(CombinedKeyingResult, a, 1), b, n) :
                        a \in {"SUCCESS", "ID_NOT_EDITABLE"},
                        b \in {"SUCCESS", "CANNOT_RESOLVE_PATH"}, n \in 0..1}
                   \cup {CombinedKeyingResult} :
          ret' = [op |-> "merge", args |-> [other |-> other], pre |-> ret.out.result,
                  out |-> [result |-> merge(ret.out.result, other), other |-> other]]
    /\ ncalls' = ncalls + 1
    /\ UNCHANGED <<id_editable, id_animatable, world, pc, crashed>>

HasErrors ==
    /\ ncalls < MaxOps
    /\ ret' = [op |-> "has_errors", args |-> NoArgs, pre |-> ret.out.result,
               out |-> [result |-> ret.out.result,
                        has_errors |-> has_errors(ret.out.result)]]
    /\ ncalls' = ncalls + 1
    /\ UNCHANGED <<id_editable, id_animatable, world, pc, crashed>>

GenerateReports ==
    /\ ncalls < MaxOps
    /\ ret' = [op |-> "generate_reports", args |-> NoArgs, pre |-> ret.out.result,
               out |-> [result |-> ret.out.result,
                        reports |-> generate_reports(ret.out.result)]]
    /\ ncalls' = ncalls + 1
    /\ UNCHANGED <<id_editable, id_animatable, world, pc, crashed>>

SpecResult == InitResult /\ [][Add \/ Merge \/ HasErrors \/ GenerateReports]_vars

(* ------------------------------ keying flags -------------------------- *)

\* A caller resolves one keying flag, with no Scene or with a Scene whose tool
\* settings hold any of the three flags, under any setting of the user.
IsKeyingFlag ==
    /\ CanCall
    /\ \E given \in BOOLEAN, flag \in {"VISUALKEY", "CYCLEAWARE", "INSERTNEEDED"},
          u_keying_flag \in SUBSET {"VISUALKEY", "CYCLEAWARE", "INSERTNEEDED"} :
        \E scene_flag \in (IF given THEN SUBSET {"VISUALKEY", "CYCLEAWARE", "INSERTNEEDED"}
                           ELSE {{}}) :
           ret' = [op |-> "is_keying_flag",
                   args |-> [scene |-> [given |-> given, keying_flag |-> scene_flag],
                             u_keying_flag |-> u_keying_flag, flag |-> flag],
                   pre |-> world,
                   out |-> is_keying_flag([given |-> given, keying_flag |-> scene_flag],
                                          u_keying_flag, flag)]
    /\ pc' = "returned"
    /\ ncalls' = ncalls + 1
    /\ UNCHANGED <<id_editable, id_animatable, world, crashed>>

\* A caller asks for the insertion flags of the settings.
GetKeyframingFlags ==
    /\ CanCall
    /\ \E given \in BOOLEAN,
          u_keying_flag \in SUBSET {"VISUALKEY", "CYCLEAWARE", "INSERTNEEDED"} :
        \E scene_flag \in (IF given THEN SUBSET {"VISUALKEY", "CYCLEAWARE", "INSERTNEEDED"}
                           ELSE {{}}) :
           ret' = [op |-> "get_keyframing_flags",
                   args |-> [scene |-> [given |-> given, keying_flag |-> scene_flag],
                             u_keying_flag |-> u_keying_flag],
                   pre |-> world,
                   out |-> get_keyframing_flags([given |-> given, keying_flag |-> scene_flag],
                                                u_keying_flag)]
    /\ pc' = "returned"
    /\ ncalls' = ncalls + 1
    /\ UNCHANGED <<id_editable, id_animatable, world, crashed>>

SpecFlags == Init /\ [][IsKeyingFlag \/ GetKeyframingFlags \/ Discard]_vars

Spec == Init /\ [][Next]_vars

\* insert_key_rna is the only entry point called
NextRna == InsertKeyRna \/ Discard

SpecRna == Init /\ [][NextRna]_vars

(* ------------------------ properties of the calls ---------------------- *)

\* a call of `op` has just returned to its caller
Returned(op) == pc = "returned" /\ ~crashed /\ ret.op = op

\* the call went past its early returns and reached the writing of keys
Wrote(op) == Returned(op) /\ ret.out.branch # "none"

\* the j-th smallest element of a set of numbers
Nth(S, j) == CHOOSE x \in S : Cardinality({y \in S : y < x}) = j - 1

\* the points of channel i of "location" in the legacy curves of an Action
Points(a, i) ==
    IF action_fcurve_find(a, "location", i) = 0 THEN 0
    ELSE totvert(a.curves[action_fcurve_find(a, "location", i)])

\* whether channel i of "location" has a key at time t in the legacy curves
HasKeyAt(a, i, t) ==
    /\ action_fcurve_find(a, "location", i) # 0
    /\ KeyIndexAt(a.curves[action_fcurve_find(a, "location", i)], t) # 0

\* every F-Curve of an Action, legacy or in a ChannelBag
AllFCurves(a) ==
    {a.curves[i] : i \in 1..Len(a.curves)}
    \cup UNION {UNION {UNION {{b.fcurves[i] : i \in 1..Len(b.fcurves)} :
                                b \in {st.channelbags[k] : k \in 1..Len(st.channelbags)}} :
                         st \in {l.strips[k] : k \in 1..Len(l.strips)}} :
                  l \in {a.layers[k] : k \in 1..Len(a.layers)}}

\* an Action holding legacy curves together with layers or bindings
Mixed(a) == Len(a.curves) > 0 /\ (Len(a.layers) > 0 \/ Len(a.bindings) > 0)

(* --------------------------------- C1 ---------------------------------- *)

\* insert_keyframe has returned from force mode: the NLA remap forced all
\* channels and the flags held replace-only or available-only
ForceModeCall ==
    /\ Wrote("insert_keyframe")
    /\ ret.args.rna_paths[1].nla.force_all
    /\ ret.args.flag \cap {"REPLACE", "AVAILABLE"} # {}

\* the first n attempts are the restricted pass: the unmasked channels in index
\* order, none before the n-th a success, and stopped early only by a success
FirstPassInOrder(log, mask, n) ==
    /\ n <= Cardinality(mask)
    /\ \A j \in 1..n : log[j].restricted /\ log[j].i = Nth(mask, j)
    /\ \A j \in 1..(n - 1) : log[j].result # "SUCCESS"
    /\ n < Cardinality(mask) => n >= 1 /\ log[n].result = "SUCCESS"

\* after a success at attempt n every other unmasked channel is written once,
\* in index order, with the restriction dropped; without one nothing follows
SecondPassRelaxed(log, mask, n) ==
    IF n >= 1 /\ log[n].result = "SUCCESS"
    THEN /\ Len(log) = n + Cardinality(mask) - 1
         /\ \A j \in (n + 1)..Len(log) :
               ~log[j].restricted /\ log[j].i = Nth(mask \ {log[n].i}, j - n)
    ELSE /\ Len(log) = n
         /\ Len(ret.out.w.act.curves) = Len(ret.pre.act.curves)

ForceModePasses(log, mask) ==
    /\ FirstPassInOrder(log, mask, Cardinality({j \in 1..Len(log) : log[j].restricted}))
    /\ SecondPassRelaxed(log, mask, Cardinality({j \in 1..Len(log) : log[j].restricted}))

\* force mode on 3 unmasked channels of which only channel 1 had a curve, and a
\* key was written
OnlyChannelOneHadCurve ==
    /\ ForceModeCall
    /\ ret.args.rna_paths[1].nla.mask = {0, 1, 2}
    /\ Points(ret.pre.act, 1) > 0
    /\ action_fcurve_find(ret.pre.act, "location", 0) = 0
    /\ action_fcurve_find(ret.pre.act, "location", 2) = 0
    /\ ret.out.result["SUCCESS"] > 0

C2_LayeredTagsOnlyAfterAKey ==
    Returned("insert_key_rna") /\ ret.out.branch = "layered" =>
        ret.out.deg = (IF ret.out.result["SUCCESS"] > 0 THEN <<"ACTION">> ELSE <<>>)

(* --------------------------------- C3 ---------------------------------- *)

\* C3: insert_keyframe tags only after a successful channel write: then the
\* Action written once, and the Action of the ID's AnimData once if that is
\* another Action; without a success, early returns included, it tags nothing.
C3_InsertKeyframeTags ==
    Returned("insert_keyframe") =>
        ret.out.deg =
            (IF ret.out.result["SUCCESS"] > 0
             THEN <<"ACTION">> \o (IF ret.out.w.adt_action # 1 THEN <<"ADT_ACTION">> ELSE <<>>)
             ELSE <<>>)

\* a call that failed on one channel, keyed another, and tagged the Action
C3_Witness ==
    /\ Wrote("insert_keyframe")
    /\ ret.out.result["SUCCESS"] > 0
    /\ has_errors(ret.out.result)
    /\ ret.out.deg = <<"ACTION">>

(* --------------------------------- C4 ---------------------------------- *)

\* C4: when insert_key_rna takes the legacy branch, the Action is tagged for the
\* dependency graph once if a channel write succeeded, and not if none did.
C4_LegacyBranchTags ==
    Returned("insert_key_rna") /\ ret.out.branch = "legacy" =>
        ret.out.deg = (IF ret.out.result["SUCCESS"] > 0 THEN <<"ACTION">> ELSE <<>>)

(* --------------------------------- C5 ---------------------------------- *)

\* C5: a call of insert_keyframe or insert_key_rna that acquired the NLA
\* keyframing-context cache has freed it when it returns, whatever became of the
\* keys, and no call frees the cache more than once or returns with contexts
\* still cached.
C5_NlaCacheReleased ==
    Returned("insert_keyframe") \/ Returned("insert_key_rna") =>
        /\ ret.out.nla_acquired => ret.out.nla_freed = 1
        /\ ret.out.nla_freed <= 1
        /\ ret.out.nla_held = 0

\* a call that acquired the cache, wrote no key, and released the cache
C5_Witness ==
    /\ Wrote("insert_keyframe")
    /\ ret.out.nla_acquired
    /\ ret.out.result["SUCCESS"] = 0
    /\ has_errors(ret.out.result)
    /\ ret.out.nla_freed = 1

(* --------------------------------- C6 ---------------------------------- *)

\* C6: after any sequence of insert_key_rna calls, the feature gate on or off at
\* each, the Action is never mixed, and the assertion of insert_key_legacy_action
\* that the Action is legacy never fails.
C6_NeverMixed ==
    /\ ~Mixed(world.act)
    /\ pc = "returned" /\ ret.op = "insert_key_rna" => ~ret.out.assert_failed

(* --------------------------------- C8 ---------------------------------- *)

\* the positions of the paths of the call that do not resolve
Unresolved == {p \in 1..Len(ret.args.rna_paths) :
                 ~RNA_path_resolve_property(ret.args.rna_paths[p].path)}

\* the array elements of path p the branch taken writes
ElementsWritten(p) ==
    IF ret.out.branch = "legacy" THEN ret.args.rna_paths[p].nla.mask
    ELSE RemapDomain(ret.args.rna_paths[p].index, 3)

\* C8: in insert_key_rna, both branches, every path that does not resolve adds
\* exactly one CANNOT_RESOLVE_PATH and writes nothing, and every other path of
\* the call, later ones included, is processed: each of its elements to write is
\* attempted once and has its outcome in the returned aggregate.
C8_UnresolvedPathSkipped ==
    Wrote("insert_key_rna") =>
        /\ ret.out.result["CANNOT_RESOLVE_PATH"] = Cardinality(Unresolved)
        /\ \A j \in 1..Len(ret.out.log) : ret.out.log[j].p \notin Unresolved
        /\ \A c \in AllFCurves(ret.out.w.act) : RNA_path_resolve_property(c.rna_path)
        /\ \A p \in (1..Len(ret.args.rna_paths)) \ Unresolved :
              /\ \A i \in ElementsWritten(p) :
                    Cardinality({j \in 1..Len(ret.out.log) :
                                   ret.out.log[j].p = p /\ ret.out.log[j].i = i}) = 1
              /\ \A j \in 1..Len(ret.out.log) :
                    ret.out.log[j].p = p => ret.out.log[j].i \in ElementsWritten(p)
        /\ TotalCount(ret.out.result) - ret.out.result["CANNOT_RESOLVE_PATH"]
           - ret.out.result["UNABLE_TO_INSERT_TO_NLA_STACK"] = Len(ret.out.log)

\* a path that does not resolve, followed by one that is keyed, legacy branch
C8_Witness ==
    /\ Wrote("insert_key_rna")
    /\ ret.out.branch = "legacy"
    /\ Len(ret.args.rna_paths) = 2
    /\ Unresolved = {1}
    /\ ret.out.result["CANNOT_RESOLVE_PATH"] = 1
    /\ ret.out.result["SUCCESS"] > 0

(* --------------------------------- C9 ---------------------------------- *)

\* the channels the caller of insert_keyframe asked for
Requested == RemapDomain(ret.args.rna_paths[1].index, 3)

\* C9: in insert_keyframe every requested channel that gets no key has a failure
\* outcome in the returned aggregate, and a requested channel the NLA remap
\* rejected is recorded as UNABLE_TO_INSERT_TO_NLA_STACK.
C9_EveryFailureRecorded ==
    Wrote("insert_keyframe") =>
        /\ ret.out.result["UNABLE_TO_INSERT_TO_NLA_STACK"] =
              Cardinality(Requested \ ret.args.rna_paths[1].nla.mask)
        /\ \A i \in Requested \cap ret.args.rna_paths[1].nla.mask :
              \E j \in 1..Len(ret.out.log) : ret.out.log[j].i = i

(* --------------------------------- C10 --------------------------------- *)

\* C10: the aggregate insert_keyframe returns holds one outcome per channel
\* attempted: its counts add up to the number of distinct channels attempted, and
\* a channel that was keyed has no failure recorded as well.
C10_OneOutcomePerChannel ==
    Wrote("insert_keyframe") =>
        /\ TotalCount(ret.out.result) =
              Cardinality({ret.out.log[j].i : j \in 1..Len(ret.out.log)})
        /\ \A j, k \in 1..Len(ret.out.log) :
              ret.out.log[j].i = ret.out.log[k].i /\ ret.out.log[j].result = "SUCCESS"
                  => ret.out.log[k].result = "SUCCESS"

(* --------------------------------- C11 --------------------------------- *)

\* the resolved paths of the call that are restricted to one array index
Restricted == {p \in (1..Len(ret.args.rna_paths)) \ Unresolved :
                 ret.args.rna_paths[p].index # -1}

\* the elements of the resolved paths that the index restriction leaves and the
\* NLA stack rejected
RejectedByNla ==
    {<<p, i>> \in ((1..Len(ret.args.rna_paths)) \ Unresolved) \X (0..2) :
        /\ i \in RemapDomain(ret.args.rna_paths[p].index, 3)
        /\ i \notin ret.args.rna_paths[p].nla.mask}

\* C11: in the legacy branch of insert_key_rna a path restricted to one array
\* index attempts only that element, and the elements the restriction excludes
\* add no outcome to the aggregate: UNABLE_TO_INSERT_TO_NLA_STACK counts only
\* elements the restriction leaves.
C11_ExcludedElementsAddNothing ==
    Wrote("insert_key_rna") /\ ret.out.branch = "legacy" =>
        /\ \A j \in 1..Len(ret.out.log) :
              ret.out.log[j].p \in Restricted =>
                  ret.out.log[j].i = ret.args.rna_paths[ret.out.log[j].p].index
        /\ ret.out.result["UNABLE_TO_INSERT_TO_NLA_STACK"] = Cardinality(RejectedByNla)

(* --------------------------------- C12 --------------------------------- *)

\* the curves of channel i of "location" in an Action, legacy or layered
ChannelCurves(a, i) == {c \in AllFCurves(a) : c.rna_path = "location" /\ c.array_index = i}

\* the outcomes recorded for element i of path p
Outcomes(p, i) == {j \in 1..Len(ret.out.log) : ret.out.log[j].p = p /\ ret.out.log[j].i = i}

\* C12: in the layered branch every resolved path has exactly one outcome for
\* each array element its index allows (all of them for no index, the one
\* element for an index) and none for the others, and an element no path of
\* the call allows is not written.
C12_LayeredOneOutcomePerElement ==
    Wrote("insert_key_rna") /\ ret.out.branch = "layered" =>
        /\ \A p \in (1..Len(ret.args.rna_paths)) \ Unresolved : \A i \in 0..2 :
              Cardinality(Outcomes(p, i)) =
                  IF i \in RemapDomain(ret.args.rna_paths[p].index, 3) THEN 1 ELSE 0
        /\ TotalCount(ret.out.result) = Cardinality(Unresolved) + Len(ret.out.log)
        /\ \A i \in 0..2 :
              (\A p \in 1..Len(ret.args.rna_paths) : Outcomes(p, i) = {})
                  => ChannelCurves(ret.out.w.act, i) = ChannelCurves(ret.pre.act, i)

\* a layered call with a path restricted to element 1 and a path with no index:
\* four outcomes, all keys written
C12_Witness ==
    /\ Wrote("insert_key_rna")
    /\ ret.out.branch = "layered"
    /\ Len(ret.args.rna_paths) = 2
    /\ ret.args.rna_paths[1].path = "location" /\ ret.args.rna_paths[1].index = 1
    /\ ret.args.rna_paths[2].path = "location" /\ ret.args.rna_paths[2].index = -1
    /\ Len(ret.out.log) = 4
    /\ ret.out.result["SUCCESS"] = 4

(* --------------------------------- C13 --------------------------------- *)

\* a call that went through the legacy channel writer
WroteLegacy ==
    /\ pc = "returned" /\ ~crashed
    /\ ret.op \in {"insert_keyframe", "insert_key_rna"}
    /\ ret.out.branch = "legacy"

\* the number of legacy curves of channel i of "location" in an Action
CurveCount(a, i) ==
    Cardinality({k \in 1..Len(a.curves) :
                   a.curves[k].rna_path = "location" /\ a.curves[k].array_index = i})

\* the channel writes of the call for channel i, in the order made
Attempts(i) == {j \in 1..Len(ret.out.log) : ret.out.log[j].i = i}

\* the channel writes for channel i that were allowed to create its curve
Creating(i) == {j \in Attempts(i) : ~ret.out.log[j].restricted}

\* the channels with no curve before the call and a write allowed to create it
Created == {i \in 0..2 : CurveCount(ret.pre.act, i) = 0 /\ Creating(i) # {}}

\* C13: a channel write with the replace-only or the available-only flag for a
\* (path, index) that has no curve returns CANNOT_CREATE_FCURVE and adds no
\* curve; without either flag the missing curve is created, one for that
\* (path, index), and the key is written into it.
C13_MissingCurve ==
    WroteLegacy =>
        /\ ret.op = "insert_key_rna" =>
              \A j \in 1..Len(ret.out.log) :
                 ret.out.log[j].restricted =
                     (ret.args.flag \cap {"REPLACE", "AVAILABLE"} # {})
        /\ \A i \in 0..2 : CurveCount(ret.pre.act, i) = 0 =>
              /\ \A j \in Attempts(i) :
                    (\A k \in Creating(i) : j < k)
                        => ret.out.log[j].result = "CANNOT_CREATE_FCURVE"
              /\ Creating(i) = {} => CurveCount(ret.out.w.act, i) = 0
              /\ \A j \in Creating(i) :
                    (\A k \in Creating(i) : j <= k) => ret.out.log[j].result = "SUCCESS"
              /\ Creating(i) # {} =>
                    CurveCount(ret.out.w.act, i) = 1 /\ Points(ret.out.w.act, i) >= 1
        /\ Len(ret.out.w.act.curves) = Len(ret.pre.act.curves) + Cardinality(Created)

\* the curve of element 1 was created by a call without the flags; a replace-only
\* call for all elements then finds no curve for elements 0 and 2 and adds none
C13_Witness ==
    /\ WroteLegacy
    /\ ret.op = "insert_key_rna"
    /\ ret.args.flag = {"REPLACE"}
    /\ Len(ret.pre.act.curves) = 1
    /\ CurveCount(ret.pre.act, 1) = 1 /\ Points(ret.pre.act, 1) = 1
    /\ ret.out.result["CANNOT_CREATE_FCURVE"] = 2
    /\ Len(ret.out.w.act.curves) = 1

(* --------------------------------- C14 --------------------------------- *)

\* a call that reached the write into the curve of location[1] the Action
\* started with
WroteStartCurve ==
    /\ pc = "returned" /\ ~crashed
    /\ \/ ret.op = "insert_keyframe_direct" /\ ret.out.result # "none"
       \/ ret.op = "insert_keyframe" /\ ret.out.branch = "legacy"
                                     /\ \E j \in 1..Len(ret.out.log) : ret.out.log[j].i = 1

\* the outcomes of the writes into that curve
StartCurveResults ==
    IF ret.op = "insert_keyframe_direct" THEN {ret.out.result}
    ELSE {ret.out.log[j].result : j \in {k \in 1..Len(ret.out.log) : ret.out.log[k].i = 1}}

\* C14: a write into a locked curve fails with FCURVE_NOT_KEYFRAMEABLE and
\* leaves the points of the curve as they were, whether it is reached through
\* insert_keyframe_value alone or through insert_keyframe_fcurve_value, with
\* cycle-aware insertion into a cyclic Action included.
C14_LockedCurveUntouched ==
    WroteStartCurve /\ ret.pre.act.curves[1].protected =>
        /\ StartCurveResults = {"FCURVE_NOT_KEYFRAMEABLE"}
        /\ world.act.curves[1].bezt = ret.pre.act.curves[1].bezt

(* --------------------------------- C15 --------------------------------- *)

\* an insert_keyframe_direct call that reached insert_keyframe_value
DirectWrote ==
    pc = "returned" /\ ~crashed /\ ret.op = "insert_keyframe_direct" /\ ret.out.result # "none"

\* the curve the call was made on, before the call
StartCurve == ret.pre.act.curves[1]

\* a curve that repeats without offset over a range of positive length
PerfectCycle(fcu) ==
    /\ Len(fcu.bezt) >= 2
    /\ fcu.has_cycles /\ fcu.before_mode = "CYCLIC" /\ fcu.after_mode = "CYCLIC"
    /\ fcu.bezt[1][1] < fcu.bezt[Len(fcu.bezt)][1]

\* C15: the point insertion is called with the cycle-aware flag only if the
\* caller asked for it and the curve is a perfect cycle; for any other curve it
\* is called without the flag, the other flags as given, and the write goes
\* on and does not fail for that.
C15_CycleAwareOnlyForPerfectCycle ==
    DirectWrote /\ ~StartCurve.protected =>
        /\ ret.out.vert_calls =
              <<IF "CYCLE_AWARE" \in ret.args.flag /\ PerfectCycle(StartCurve)
                THEN ret.args.flag ELSE ret.args.flag \ {"CYCLE_AWARE"}>>
        /\ "CYCLE_AWARE" \in ret.args.flag /\ ~PerfectCycle(StartCurve)
              => ret.out.result = "SUCCESS" /\ ret.out.ok

\* a cycle-aware write into a two-key curve that repeats with offset: the point
\* insertion is called without the flag and succeeds
C15_Witness ==
    /\ DirectWrote
    /\ ret.args.flag = {"CYCLE_AWARE"}
    /\ Len(StartCurve.bezt) = 2
    /\ CycleType(StartCurve) = "OFFSET"
    /\ ret.out.vert_calls = <<{}>>
    /\ ret.out.result = "SUCCESS"

(* --------------------------------- C16 --------------------------------- *)

\* a call of the cycle remapper has returned
Remapped == pc = "returned" /\ ~crashed /\ ret.op = "remap_cyclic_keyframe_location"

\* the time of the first and of the last key of a curve
FirstTime(fcu) == fcu.bezt[1][1]
LastTime(fcu) == fcu.bezt[Len(fcu.bezt)][1]

\* a curve with a Cycles modifier and keys over a range of positive length
Cycling(fcu) == fcu.has_cycles /\ Len(fcu.bezt) >= 2 /\ FirstTime(fcu) < LastTime(fcu)

\* the most whole periods a time of the calls is away from the range
MaxPeriods == 8

\* C16: for a cyclic curve with keys from first to last, first < last, the
\* remapper leaves a time within [first, last] as it is and moves a time outside
\* by whole periods into [first, first + period), which is the time less
\* period * floor((time - first) / period); over [0, 10] that takes 23 to 3 and
\* -7 to 3.
C16_TimeRemappedIntoCycle ==
    Remapped /\ Cycling(StartCurve) =>
        LET start == FirstTime(StartCurve)
            period == LastTime(StartCurve) - FirstTime(StartCurve)
            px == ret.args.px
        IN /\ px >= start /\ px <= start + period => ret.out.x = px
           /\ px < start \/ px > start + period =>
                 /\ ret.out.x >= start /\ ret.out.x < start + period
                 /\ \E k \in (0 - MaxPeriods)..MaxPeriods : px - ret.out.x = k * period
           /\ start = 0 /\ period = 10 /\ px \in {23, -7} => ret.out.x = 3

\* the remapper called with time -7 on a cyclic curve over [0, 10]
C16_Witness ==
    /\ Remapped
    /\ Cycling(StartCurve)
    /\ FirstTime(StartCurve) = 0 /\ LastTime(StartCurve) = 10
    /\ ret.args.px = -7
    /\ ret.out.x = 3

(* --------------------------------- C17 --------------------------------- *)

\* a curve the remapper has no cycle for: no Cycles modifier, fewer than two
\* keys, or a last key that is not after the first
NoCycle(fcu) ==
    \/ ~fcu.has_cycles
    \/ Len(fcu.bezt) < 2
    \/ LastTime(fcu) <= FirstTime(fcu)

\* C17: for a curve without a cycle type, with fewer than two keys, or whose
\* last key is not after its first, the remapper returns `none` and the time
\* and the value as they were given.
C17_NoCycleNoRemap ==
    Remapped /\ NoCycle(StartCurve) =>
        ret.out = [type |-> "NONE", x |-> ret.args.px, y |-> ret.args.py]

\* a time far outside a curve with a Cycles modifier whose two keys are on the
\* same frame: returned as given
C17_Witness ==
    /\ Remapped
    /\ StartCurve.has_cycles
    /\ Len(StartCurve.bezt) = 2
    /\ FirstTime(StartCurve) = LastTime(StartCurve)
    /\ ret.args.px = 23
    /\ ret.out.type = "NONE" /\ ret.out.x = 23

(* --------------------------------- C18 --------------------------------- *)

\* the whole periods from the first key of the curve to the time of the call
Step == (ret.args.px - FirstTime(StartCurve)) \div (LastTime(StartCurve) - FirstTime(StartCurve))

\* the mode of the Cycles modifier on the side of the range the time is on
SideMode == IF Step >= 0 THEN StartCurve.after_mode ELSE StartCurve.before_mode

\* the time of the call is outside the range of a cyclic curve that accumulates
\* an offset on that side
OffsetApplies ==
    /\ Cycling(StartCurve)
    /\ ret.args.px < FirstTime(StartCurve) \/ ret.args.px > LastTime(StartCurve)
    /\ CycleType(StartCurve) = "OFFSET"
    /\ SideMode = "CYCLIC_OFFSET"

\* C18: the remapper changes the value only for a time outside the range of a
\* curve whose cycle type is offset-accumulating and whose mode on the side of
\* the time (after for a step >= 0, before for a step < 0) is cyclic-offset;
\* it then takes step * (last value - first value) off; in every other case
\* the value is returned as given.
C18_ValueOffsetOnlyOnOffsetSide ==
    Remapped =>
        ret.out.y =
            IF OffsetApplies
            THEN ret.args.py
                 - Step * (StartCurve.bezt[Len(StartCurve.bezt)][2] - StartCurve.bezt[1][2])
            ELSE ret.args.py

\* values 0 to 5 over [0, 10], repeating with offset before the range only: a
\* value 1 at time -7 becomes 6
C18_Witness ==
    /\ Remapped
    /\ OffsetApplies
    /\ StartCurve.bezt = <<<<0, 0>>, <<10, 5>>>>
    /\ StartCurve.before_mode = "CYCLIC_OFFSET" /\ StartCurve.after_mode = "CYCLIC"
    /\ ret.args.px = -7 /\ ret.args.py = 1
    /\ ret.out.y = 6

(* --------------------------------- C19 --------------------------------- *)

\* the curve the call was made on, after the call
EndCurve == world.act.curves[1]

\* C19: a cycle-aware write at any time into a perfect-cycle curve with keys
\* from first to last, first < last, puts its key within [first, last]: the
\* times of the first and of the last key are the same before and after.
C19_CycleAwareKeepsPeriod ==
    WroteStartCurve /\ "CYCLE_AWARE" \in ret.args.flag /\ PerfectCycle(StartCurve) =>
        /\ FirstTime(EndCurve) = FirstTime(StartCurve)
        /\ LastTime(EndCurve) = LastTime(StartCurve)
        /\ \A k \in 1..Len(EndCurve.bezt) :
              EndCurve.bezt[k][1] >= FirstTime(StartCurve)
              /\ EndCurve.bezt[k][1] <= LastTime(StartCurve)

\* a cycle-aware key asked for at time 23 on a perfect cycle over [0, 10] is
\* written at time 3
C19_Witness ==
    /\ DirectWrote
    /\ ret.args.flag = {"CYCLE_AWARE"}
    /\ PerfectCycle(StartCurve)
    /\ FirstTime(StartCurve) = 0 /\ LastTime(StartCurve) = 10
    /\ ret.args.frame = 23
    /\ ret.out.result = "SUCCESS"
    /\ Len(EndCurve.bezt) = 3
    /\ EndCurve.bezt[2][1] = 3

(* --------------------------------- C20 --------------------------------- *)

\* the number of strips of every layer of an Action
StripCounts(a) == [k \in 1..Len(a.layers) |-> Len(a.layers[k].strips)]

\* the ID's binding handle resolved to a Binding of the Action before the call
WasBound == binding_for_handle(ret.pre.act, ret.pre.adt_binding_handle) # 0

C22_NotAnimatable ==
    Returned("insert_key_rna") /\ ~id_animatable =>
        /\ ret.out.result = [k \in KindSet |-> IF k = "ID_NOT_ANIMATABLE" THEN 1 ELSE 0]
        /\ ret.out.log = <<>>
        /\ ret.out.w = ret.pre
        /\ world = ret.pre
        /\ ~world.has_adt /\ world.adt_action = 0 /\ AllFCurves(world.act) = {}

\* a call with two paths on an ID that cannot be animated
C22_Witness ==
    /\ Returned("insert_key_rna")
    /\ ~id_animatable
    /\ Len(ret.args.rna_paths) = 2
    /\ TotalCount(ret.out.result) = 1
    /\ ret.out.result["ID_NOT_ANIMATABLE"] = 1

(* --------------------------------- C23 --------------------------------- *)

\* the Action the call works on: the one assigned to the ID, else a new one
ActionOfCall == IF ret.pre.adt_action = 0 THEN NewAction ELSE ret.pre.act

\* an Action with layers or Bindings, or with no data at all
Layered(a) == Len(a.layers) > 0 \/ Len(a.bindings) > 0 \/ Len(a.curves) = 0

\* C23: insert_key_rna takes the layered branch exactly when the feature is
\* enabled and the Action of the ID is layered, the legacy branch otherwise; an
\* empty Action is layered, so with the feature enabled the first insertion on
\* an ID without an Action leaves a Layer and a Binding and no legacy curve.
C23_BranchByGateAndAction ==
    Wrote("insert_key_rna") =>
        /\ ret.out.branch = IF ret.args.baklava /\ Layered(ActionOfCall)
                            THEN "layered" ELSE "legacy"
        /\ ret.args.baklava /\ ret.pre.adt_action = 0 =>
              /\ Len(ret.out.w.act.layers) >= 1
              /\ Len(ret.out.w.act.bindings) >= 1
              /\ Len(ret.out.w.act.curves) = 0

\* the first insertion on an ID without an Action, feature enabled: keys are
\* written into a layered Action
C23_Witness ==
    /\ Wrote("insert_key_rna")
    /\ ret.args.baklava
    /\ ret.pre.adt_action = 0
    /\ ret.out.branch = "layered"
    /\ ret.out.result["SUCCESS"] = 3
    /\ Len(ret.out.w.act.layers) = 1 /\ Len(ret.out.w.act.bindings) = 1
    /\ Len(ret.out.w.act.curves) = 0

(* --------------------------------- C21 --------------------------------- *)

\* the lists of curves of an Action: its flat legacy list and every ChannelBag
Containers(a) ==
    {a.curves}
    \cup UNION {UNION {{st.channelbags[k].fcurves : k \in 1..Len(st.channelbags)} :
                         st \in {l.strips[k] : k \in 1..Len(l.strips)}} :
                  l \in {a.layers[k] : k \in 1..Len(a.layers)}}

\* no two curves of the list are for the same property path and array index
NoDuplicates(fcurves) ==
    \A i, j \in 1..Len(fcurves) :
       fcurves[i].rna_path = fcurves[j].rna_path
       /\ fcurves[i].array_index = fcurves[j].array_index => i = j

\* C21: after any sequence of insertions, deletions and clears no list of curves,
\* the flat list of a legacy Action or a ChannelBag, holds two curves for the
\* same (property path, array index): an insertion for a pair that has a curve
\* writes into that curve.
C21_OneCurvePerChannel == \A fcurves \in Containers(world.act) : NoDuplicates(fcurves)

\* a second insertion for location[1], at another frame: the one curve of the
\* channel now has two keys
C21_Witness ==
    /\ WroteLegacy
    /\ ncalls = 2
    /\ CurveCount(ret.pre.act, 1) = 1 /\ Points(ret.pre.act, 1) = 1
    /\ \E j \in 1..Len(ret.out.log) : ret.out.log[j].i = 1 /\ ret.out.log[j].result = "SUCCESS"
    /\ CurveCount(world.act, 1) = 1 /\ Points(world.act, 1) = 2

(* --------------------------------- C24 --------------------------------- *)

\* a call of delete_keyframe or clear_keyframe has returned
Deleted == pc = "returned" /\ ~crashed /\ ret.op \in {"delete_keyframe", "clear_keyframe"}

\* the call removed the only key of the only curve of the Action of the ID
LastKeyDeleted ==
    /\ Deleted /\ ret.op = "delete_keyframe"
    /\ Len(ret.pre.act.curves) = 1
    /\ Len(ret.pre.act.curves[1].bezt) = 1
    /\ ret.out.key_count = 1

\* C24: deleting the last key of the only curve of the ID's animation data
\* removes the curve and tags for a rebuild of the relations, not the Action;
\* a removal that leaves curves, and so the Action assigned, tags the Action
\* and nothing else.
C24_LastCurveRebuildsRelations ==
    /\ LastKeyDeleted =>
          /\ world.act.curves = <<>>
          /\ world.adt_action = 0
          /\ ret.out.deg = <<"ID", "RELATIONS">>
    /\ Deleted /\ ret.out.key_count > 0 =>
          ret.out.deg = IF Len(world.act.curves) = 0 THEN <<"ID", "RELATIONS">>
                        ELSE <<"ACTION">>
    /\ Deleted /\ ret.out.key_count > 0 /\ Len(world.act.curves) > 0 => world.adt_action # 0

\* the one key of the one curve, location[1], is deleted
C24_Witness ==
    /\ LastKeyDeleted
    /\ ret.args.rna_path = "location" /\ ret.args.array_index = 1
    /\ ret.out.deg = <<"ID", "RELATIONS">>
    /\ world.act.curves = <<>>

(* --------------------------------- C25 --------------------------------- *)

\* the array indices the call asks for
AskedIndices ==
    IF ret.args.array_index # -1 THEN {ret.args.array_index}
    ELSE IF ret.args.rna_path = "location" THEN {0, 1, 2}
    ELSE {0}

\* the curves of the Action before the call for the path and indices asked for
CurvesAsked ==
    {k \in 1..Len(ret.pre.act.curves) :
        /\ ret.pre.act.curves[k].rna_path = ret.args.rna_path
        /\ ret.pre.act.curves[k].array_index \in AskedIndices}

\* nothing can be removed: no ID or no AnimData, a path that does not resolve,
\* no Action, no curve for the path and indices, or locked curves only
NothingToRemove ==
    \/ ~ret.args.has_id
    \/ ~ret.pre.has_adt
    \/ ret.args.rna_path = "bogus"
    \/ ret.pre.adt_action = 0
    \/ \A k \in CurvesAsked : ret.pre.act.curves[k].protected

\* C25: delete_keyframe and clear_keyframe notify the dependency graph once per
\* call when the count they return is greater than zero and not at all when it
\* is zero, which it is without an ID or AnimData, for a path that does not
\* resolve, without an Action, without a curve for the indices asked for and
\* when every such curve is locked.
C25_NotifiedOnceIfRemoved ==
    Deleted =>
        /\ ret.out.key_count > 0 => ret.out.deg \in {<<"ACTION">>, <<"ID", "RELATIONS">>}
        /\ ret.out.key_count = 0 => ret.out.deg = <<>>
        /\ NothingToRemove => ret.out.key_count = 0 /\ ret.out.deg = <<>> /\ world = ret.pre

\* clear_keyframe for all of location removes two curves and leaves a locked
\* one: one tag of the Action
C25_Witness ==
    /\ Deleted /\ ret.op = "clear_keyframe"
    /\ ret.args.rna_path = "location" /\ ret.args.array_index = -1
    /\ ret.out.key_count = 2
    /\ Len(ret.out.reports) = 1
    /\ ret.out.deg = <<"ACTION">>

(* --------------------------------- C26 --------------------------------- *)

\* the call reached its loop over the array indices
Looped == Deleted /\ ret.out.visited # <<>>

\* the curves asked for that are locked, and those that are not
LockedAsked == {k \in CurvesAsked : ret.pre.act.curves[k].protected}
UnlockedAsked == CurvesAsked \ LockedAsked

\* the curves of the Action after the call
CurvesLeft == {world.act.curves[k] : k \in 1..Len(world.act.curves)}

\* C26: delete_keyframe and clear_keyframe skip a locked curve: the curve is
\* left with all its keys, it is not counted, one warning is emitted for it,
\* and the other indices of the range are processed all the same.
C26_LockedCurveSkipped ==
    Looped =>
        /\ \A k \in LockedAsked : ret.pre.act.curves[k] \in CurvesLeft
        /\ ret.out.key_count = Cardinality(UnlockedAsked)
        /\ \A k \in LockedAsked :
              Cardinality({j \in 1..Len(ret.out.reports) :
                             ret.out.reports[j] =
                                 [type |-> "WARNING",
                                  index |-> ret.pre.act.curves[k].array_index]}) = 1
        /\ Len(ret.out.reports) = Cardinality(LockedAsked)
        /\ {ret.out.visited[j] : j \in 1..Len(ret.out.visited)} = AskedIndices
        /\ \A k \in UnlockedAsked : ret.pre.act.curves[k] \notin CurvesLeft

\* delete_keyframe for all of location with location[1] locked: one warning,
\* and the key of location[2], which comes after it, is deleted
C26_Witness ==
    /\ Looped /\ ret.op = "delete_keyframe"
    /\ ret.args.rna_path = "location" /\ ret.args.array_index = -1
    /\ Cardinality(LockedAsked) = 1
    /\ ret.out.reports = <<[type |-> "WARNING", index |-> 1]>>
    /\ ret.out.key_count = 1
    /\ CurveCount(ret.pre.act, 2) = 1 /\ CurveCount(world.act, 2) = 0
    /\ Points(world.act, 1) = 1

(* --------------------------------- C27 --------------------------------- *)

\* the curves of an Action that are not for the path and indices asked for
CurvesNotAsked(a) ==
    {a.curves[k] : k \in {j \in 1..Len(a.curves) :
                             ~(/\ a.curves[j].rna_path = ret.args.rna_path
                               /\ a.curves[j].array_index \in AskedIndices)}}

\* C27: delete_keyframe and clear_keyframe look up the indices asked for and no
\* others, and create no curve: the one index given, or for index -1 the
\* indices 0..len-1 of an array property and index 0 alone of a single
\* property; curves of other paths and indices are left as they are.
C27_OnlyRequestedIndices ==
    Looped =>
        /\ ret.out.visited =
              IF ret.args.array_index # -1 THEN <<ret.args.array_index>>
              ELSE IF ret.args.rna_path = "location" THEN <<0, 1, 2>>
              ELSE <<0>>
        /\ CurvesNotAsked(world.act) = CurvesNotAsked(ret.pre.act)
        /\ CurvesLeft \subseteq {ret.pre.act.curves[k] : k \in 1..Len(ret.pre.act.curves)}
              \cup {[ret.pre.act.curves[k] EXCEPT !.bezt = b] :
                       k \in CurvesAsked, b \in {<<<<1, 1>>>>, <<<<2, 1>>>>}}
        /\ Len(world.act.curves) <= Len(ret.pre.act.curves)

\* clear_keyframe for every index of the single property: index 0 alone is
\* looked up, its curve goes and the three curves of location stay
C27_Witness ==
    /\ Looped /\ ret.op = "clear_keyframe"
    /\ ret.args.rna_path = "pass_index" /\ ret.args.array_index = -1
    /\ ret.out.visited = <<0>>
    /\ ret.out.key_count = 1
    /\ Len(ret.pre.act.curves) = 4
    /\ Len(world.act.curves) = 3

(* --------------------------------- C28 --------------------------------- *)

\* C28: clear_keyframe removes every unlocked curve it finds for the indices
\* asked for, the curve with all its keys: afterwards no unlocked curve is left
\* for the path and any of the indices, and the number returned is the number
\* of curves removed.
C28_ClearRemovesCurves ==
    Looped /\ ret.op = "clear_keyframe" =>
        /\ \A c \in CurvesLeft :
              c.rna_path = ret.args.rna_path /\ c.array_index \in AskedIndices => c.protected
        /\ ret.out.key_count = Cardinality(UnlockedAsked)
        /\ ret.out.key_count = Len(ret.pre.act.curves) - Len(world.act.curves)

\* clear_keyframe for location[1], whose curve has two keys: the curve is gone
C28_Witness ==
    /\ Looped /\ ret.op = "clear_keyframe"
    /\ ret.args.rna_path = "location" /\ ret.args.array_index = 1
    /\ Points(ret.pre.act, 1) = 2
    /\ ret.out.key_count = 1
    /\ CurveCount(world.act, 1) = 0

(* ------------------------- reports and has_errors ---------------------- *)

\* the kinds other than SUCCESS that an aggregate has counted
FailedKinds(r) == {k \in KindSet \ {"SUCCESS"} : r[k] # 0}

\* the one report of the last generate_reports call
TheReport == ret.out.reports[1]

\* C29: generate_reports gives one report.  With no success and no error counted
\* it is a warning; with exactly one kind of error counted it is an error of one
\* line that states the count of that kind; with several kinds counted it is
\* an error made of the fixed header line followed by one bulleted line for
\* each kind counted, with its count, and no other line.
C29_ReportsByErrorKinds ==
    ret.op = "generate_reports" =>
        /\ Len(ret.out.reports) = 1
        /\ (ret.pre["SUCCESS"] = 0 /\ FailedKinds(ret.pre) = {}) =>
               TheReport.type = "WARNING" /\ Len(TheReport.lines) = 1
        /\ Cardinality(FailedKinds(ret.pre)) = 1 =>
               /\ TheReport.type = "ERROR"
               /\ \E k \in FailedKinds(ret.pre) :
                     TheReport.lines = <<[bullet |-> FALSE, text |-> k, count |-> ret.pre[k]]>>
        /\ Cardinality(FailedKinds(ret.pre)) > 1 =>
               /\ TheReport.type = "ERROR"
               /\ Len(TheReport.lines) = 1 + Cardinality(FailedKinds(ret.pre))
               /\ TheReport.lines[1] =
                     [bullet |-> FALSE, text |-> "Inserting keyframes failed:", count |-> 0]
               /\ \A k \in FailedKinds(ret.pre) :
                     \E n \in 2..Len(TheReport.lines) :
                        TheReport.lines[n] = [bullet |-> TRUE, text |-> k, count |-> ret.pre[k]]

\* one unresolved path and one ID that is not editable: a header and two bullets
C29_Witness ==
    /\ ret.op = "generate_reports"
    /\ FailedKinds(ret.pre) = {"CANNOT_RESOLVE_PATH", "ID_NOT_EDITABLE"}
    /\ ret.pre["CANNOT_RESOLVE_PATH"] = 1 /\ ret.pre["ID_NOT_EDITABLE"] = 1
    /\ TheReport.type = "ERROR"
    /\ Len(TheReport.lines) = 3
    /\ TheReport.lines[2].bullet /\ TheReport.lines[3].bullet

\* C30: has_errors() is true exactly when the count of some kind other than
\* SUCCESS is not zero, whatever add and merge calls built the aggregate; it is
\* false for an empty aggregate and for one that counted successes only.
C30_HasErrorsIffFailureCounted ==
    ret.op = "has_errors" =>
        /\ ret.out.has_errors = (\E i \in 2..Len(Kinds) : ret.pre[Kinds[i]] # 0)
        /\ ret.pre = CombinedKeyingResult => ~ret.out.has_errors
        /\ (\A i \in 2..Len(Kinds) : ret.pre[Kinds[i]] = 0) => ~ret.out.has_errors

\* successes only, counted by two calls, and no error seen
C30_Witness ==
    /\ ret.op = "has_errors"
    /\ ncalls = MaxOps
    /\ ret.pre["SUCCESS"] > 1
    /\ FailedKinds(ret.pre) = {}
    /\ ~ret.out.has_errors

(* ------------------------------ add and merge -------------------------- *)

\* C31: after add(R, c) with c >= 0, get_count(R) is the count of R before the
\* call plus c, and the count of every other kind is what it was before.
C31_AddAccumulates ==
    ret.op = "add" =>
        /\ get_count(ret.out.result, ret.args.result) =
              get_count(ret.pre, ret.args.result) + ret.args.count
        /\ \A k \in KindSet \ {ret.args.result} :
              get_count(ret.out.result, k) = get_count(ret.pre, k)

\* a second add of a kind already counted
C31_Witness ==
    /\ ret.op = "add"
    /\ ret.args.count = 2
    /\ get_count(ret.pre, ret.args.result) = 1
    /\ get_count(ret.out.result, ret.args.result) = 3

\* C31 as the specification words it: after add(R, c), get_count(R) is c.
C31_AsStated ==
    ret.op = "add" =>
        /\ get_count(ret.out.result, ret.args.result) = ret.args.count
        /\ \A k \in KindSet \ {ret.args.result} :
              get_count(ret.out.result, k) = get_count(ret.pre, k)

\* the aggregates a third merge is tried with
ThirdOperands ==
    {CombinedKeyingResult} \cup
    {[CombinedKeyingResult EXCEPT ![a] = 1, ![b] = n] :
        a \in {"SUCCESS", "NO_KEY_NEEDED"}, b \in {"CANNOT_RESOLVE_PATH", "ID_NOT_EDITABLE"},
        n \in 1..2}

\* C32: merging B into A gives the counts of merging A into B; merging C into
\* the result gives the counts of merging (B merged with C) into A; and the
\* aggregate merged in is after the call what it was before.
C32_MergeCommutesAssociates ==
    ret.op = "merge" =>
        /\ ret.out.result = merge(ret.args.other, ret.pre)
        /\ \A c \in ThirdOperands :
              merge(ret.out.result, c) = merge(ret.pre, merge(ret.args.other, c))
        /\ ret.out.other = ret.args.other
        /\ \A k \in KindSet : ret.out.result[k] = ret.pre[k] + ret.args.other[k]

\* two aggregates that both counted the same kind, and another kind each
C32_Witness ==
    /\ ret.op = "merge"
    /\ ret.pre["SUCCESS"] = 2 /\ ret.pre["NO_KEY_NEEDED"] = 1
    /\ ret.args.other["SUCCESS"] = 1 /\ ret.args.other["CANNOT_RESOLVE_PATH"] = 1
    /\ ret.out.result["SUCCESS"] = 3
    /\ ret.out.result["NO_KEY_NEEDED"] = 1 /\ ret.out.result["CANNOT_RESOLVE_PATH"] = 1

(* ------------------------------ keying flags --------------------------- *)

\* the insertion flag each keying flag stands for
InsertFlagOf(flag) ==
    CASE flag = "VISUALKEY" -> "MATRIX"
      [] flag = "CYCLEAWARE" -> "CYCLE_AWARE"
      [] flag = "INSERTNEEDED" -> "NEEDED"

\* the value of a keying flag when the Scene takes precedence over the user
SceneFirst(args, flag) ==
    IF args.scene.given THEN flag \in args.scene.keying_flag ELSE flag \in args.u_keying_flag

\* C33: the resolved value of a keying flag is the value the Scene has for it
\* when a Scene is given, and the value of the user's setting only when there
\* is no Scene; the insertion flags are the flags so resolved.
C33_SceneTakesPrecedence ==
    /\ ret.op = "is_keying_flag" => ret.out = SceneFirst(ret.args, ret.args.flag)
    /\ ret.op = "get_keyframing_flags" =>
          \A flag \in {"VISUALKEY", "CYCLEAWARE", "INSERTNEEDED"} :
             InsertFlagOf(flag) \in ret.out <=> SceneFirst(ret.args, flag)

(* --------------------------- NLA remap diagnostics --------------------- *)

\* the requested indices of count values that the mask does not hold
FailedRequested(index, count, mask) ==
    {i \in 0..(count - 1) : (index = -1 \/ i = index) /\ i \notin mask}

\* no report when no requested index failed, else one warning with the failed
\* requested indices, each once, and their number
OneWarningFor(reports, failed) ==
    /\ Len(reports) <= 1
    /\ reports = <<>> <=> failed = {}
    /\ failed # {} =>
          /\ reports[1].type = "WARNING"
          /\ reports[1].total_failed = Cardinality(failed)
          /\ Len(reports[1].indices) = Cardinality(failed)
          /\ {reports[1].indices[n] : n \in 1..Len(reports[1].indices)} = failed

\* insert_keyframe_direct got as far as the remap of the values
DirectRemapped ==
    /\ ret.op = "insert_keyframe_direct"
    /\ ret.args.ix # 0 /\ ret.args.has_ptr
    /\ ret.args.has_prop \/ RNA_path_resolve_property(ret.pre.act.curves[ret.args.ix].rna_path)

\* C34: the NLA remap step emits no diagnostic when no requested index (the
\* given one, or all of them for -1) failed the remap, and otherwise exactly one
\* warning that lists the failed requested indices, and only those, with their
\* number; insert_keyframe_direct emits it for the array index of its curve,
\* and no such warning when it returns before the remap.
C34_OneRemapWarning ==
    /\ ret.op = "nla_map_keyframe_values_and_generate_reports" =>
          OneWarningFor(ret.out.reports,
                        FailedRequested(ret.args.index, ret.args.count, ret.args.nla.mask))
    /\ DirectRemapped =>
          OneWarningFor(ret.out.warnings,
                        FailedRequested(ret.pre.act.curves[ret.args.ix].array_index, 3,
                                        ret.args.nla.mask))
    /\ ret.op = "insert_keyframe_direct" /\ ~DirectRemapped => ret.out.warnings = <<>>

\* every index asked for, only index 1 remapped: indices 0 and 2 are listed
C34_Witness ==
    /\ ret.op = "nla_map_keyframe_values_and_generate_reports"
    /\ ret.args.index = -1
    /\ ret.args.nla.mask = {1}
    /\ Len(ret.out.reports) = 1
    /\ ret.out.reports[1].total_failed = 2
    /\ ret.out.reports[1].indices = <<0, 2>>

(* ------------------------ early returns of insert_keyframe ------------- *)

\* the call returned one outcome of this kind and left everything as it was
OnlyOutcome(kind) ==
    /\ ret.out.result = [CombinedKeyingResult EXCEPT ![kind] = 1]
    /\ ret.out.w = ret.pre
    /\ world = ret.pre
    /\ ~ret.out.nla_acquired
    /\ ret.out.deg = <<>>
    /\ ret.out.log = <<>>

\* C35: insert_keyframe on an ID that is not editable returns ID_NOT_EDITABLE = 1
\* and nothing else, and on an editable ID with a path that does not resolve
\* CANNOT_RESOLVE_PATH = 1 and nothing else; in both cases the AnimData, the
\* Action and its curves are what they were, no NLA context is acquired and
\* nothing is tagged.
C35_EarlyReturnsTouchNothing ==
    ret.op = "insert_keyframe" =>
        /\ ~id_editable => OnlyOutcome("ID_NOT_EDITABLE")
        /\ id_editable /\ ~RNA_path_resolve_property(ret.args.rna_paths[1].path) =>
              OnlyOutcome("CANNOT_RESOLVE_PATH")

\* an ID that is not editable and that an earlier call has keyed
C35_Witness ==
    /\ ret.op = "insert_keyframe"
    /\ ~id_editable
    /\ Len(ret.pre.act.curves) >= 1
    /\ ret.args.rna_paths[1].path = "location"
    /\ ret.out.result["ID_NOT_EDITABLE"] = 1
    /\ world.act.curves = ret.pre.act.curves

(* --------------------------- severity of the report -------------------- *)

\* C36: every generate_reports call emits exactly one report, a warning or an
\* error, and it is an error exactly when has_errors() holds of the aggregate;
\* an aggregate of successes only gets no error.
C36_ErrorIffHasErrors ==
    ret.op = "generate_reports" =>
        /\ Len(ret.out.reports) = 1
        /\ ret.out.reports[1].type \in {"WARNING", "ERROR"}
        /\ ret.out.reports[1].type = "ERROR" <=> has_errors(ret.pre)
        /\ (\A k \in KindSet \ {"SUCCESS"} : ret.pre[k] = 0) =>
              ret.out.reports[1].type # "ERROR"

\* successes only: one report, a warning
C36_Witness ==
    /\ ret.op = "generate_reports"
    /\ ret.pre["SUCCESS"] >= 1
    /\ \A k \in KindSet \ {"SUCCESS"} : ret.pre[k] = 0
    /\ Len(ret.out.reports) = 1
    /\ ret.out.reports[1].type = "WARNING"

(* ------------------------ insert_keyframe_direct ----------------------- *)

\* the keyframe points of the curves of an Action
PointsOf(a) == [n \in 1..Len(a.curves) |-> a.curves[n].bezt]

\* insert_keyframe_direct was given no curve, no RNA pointer, a curve whose path
\* does not resolve, or a curve whose array index the NLA remap rejected
DirectRefused ==
    \/ ret.args.ix = 0
    \/ ~ret.args.has_ptr
    \/ ~ret.args.has_prop /\ ~RNA_path_resolve_property(ret.pre.act.curves[ret.args.ix].rna_path)
    \/ ret.pre.act.curves[ret.args.ix].array_index \notin ret.args.nla.mask

\* C37: insert_keyframe_direct returns true exactly when the curve-level write
\* returned SUCCESS; without a curve, without an RNA pointer, with a path that
\* does not resolve, or with an array index the NLA remap rejected, it returns
\* false, the write is not made and the points of the curves are unchanged.
C37_DirectTrueIffWritten ==
    ret.op = "insert_keyframe_direct" =>
        /\ ret.out.ok <=> ret.out.result = "SUCCESS"
        /\ DirectRefused =>
              /\ ~ret.out.ok
              /\ ret.out.result = "none"
              /\ ret.out.vert_calls = <<>>
              /\ PointsOf(ret.out.act) = PointsOf(ret.pre.act)
              /\ PointsOf(world.act) = PointsOf(ret.pre.act)
        /\ ~DirectRefused => ret.out.result # "none"

\* a curve whose path does not resolve, with an index the NLA remap accepts
C37_Witness ==
    /\ ret.op = "insert_keyframe_direct"
    /\ ret.args.ix = 1 /\ ret.args.has_ptr /\ ~ret.args.has_prop
    /\ ret.pre.act.curves[1].rna_path = "bogus"
    /\ 1 \in ret.args.nla.mask
    /\ ~ret.out.ok
    /\ ret.out.errors = 1
    /\ PointsOf(world.act) = <<<<<<2, 1>>>>>>

(* ---------------------- new curves of a cyclic Action ------------------ *)

\* a cycle-aware insert_keyframe call on a cyclic Action
CycleAwareCall ==
    /\ ret.op = "insert_keyframe"
    /\ "CYCLE_AWARE" \in ret.args.flag
    /\ BKE_action_is_cyclic(ret.pre.act)

ActionPeriod == ret.pre.act.frame_end - ret.pre.act.frame_start

\* the channels of "location" that had no key before the call, with or without
\* a curve, and that the call wrote with success
NewlyKeyed ==
    {i \in 0..2 : /\ Points(ret.pre.act, i) = 0
                  /\ \E j \in Attempts(i) : ret.out.log[j].result = "SUCCESS"}

\* the curve of channel i of "location" after the call
CurveAfter(i) == world.act.curves[action_fcurve_find(world.act, "location", i)]

\* whether channel i of "location" had a Cycles modifier before the call
HadCycles(i) ==
    /\ action_fcurve_find(ret.pre.act, "location", i) # 0
    /\ ret.pre.act.curves[action_fcurve_find(ret.pre.act, "location", i)].has_cycles

\* C38: after a cycle-aware insertion into a cyclic Action, a curve that was new
\* and was written with success holds, for a period of at least 0.1, exactly two
\* keys of the same value one period apart, the first within one period from
\* the start frame, and has a Cycles modifier; for a shorter period it holds
\* the one key written and got no modifier; and a curve that held two keys
\* before the call got no second copy of a key and no modifier.
C38_NewCurveMadeCyclic ==
    CycleAwareCall =>
        /\ \A i \in NewlyKeyed :
              IF ActionPeriod >= 1
              THEN /\ Len(CurveAfter(i).bezt) = 2
                   /\ CurveAfter(i).bezt[1][2] = CurveAfter(i).bezt[2][2]
                   /\ CurveAfter(i).bezt[2][1] - CurveAfter(i).bezt[1][1] = ActionPeriod
                   /\ CurveAfter(i).bezt[1][1] >= ret.pre.act.frame_start
                   /\ CurveAfter(i).bezt[1][1] < ret.pre.act.frame_start + ActionPeriod
                   /\ CurveAfter(i).has_cycles
              ELSE /\ Len(CurveAfter(i).bezt) = 1
                   /\ CurveAfter(i).has_cycles = HadCycles(i)
        /\ \A i \in 0..2 :
              Points(ret.pre.act, i) >= 2 =>
                 /\ CurveAfter(i).has_cycles = HadCycles(i)
                 /\ Points(world.act, i) <= Points(ret.pre.act, i) + 1

\* a key at frame 2 into the new curve of channel 0, Action range [0, 4]: keys
\* at frames 2 and 6
C38_Witness ==
    /\ CycleAwareCall
    /\ ActionPeriod = 4
    /\ ret.args.frame = 2
    /\ 0 \in NewlyKeyed
    /\ CurveCount(ret.pre.act, 0) = 0
    /\ Len(CurveAfter(0).bezt) = 2
    /\ CurveAfter(0).bezt[1][1] = 2 /\ CurveAfter(0).bezt[2][1] = 6
    /\ CurveAfter(0).has_cycles

====
